---- MODULE Spec2Model ----
(***************************************************************************)
(* Entitlement engine of the download bot: the users / referrals /         *)
(* channel_follows / downloads tables of database.py, the referral logic   *)
(* of referral_system.py, and the command and message handlers of the two  *)
(* entry points, main.py (DownloadBot) and enhanced_bot.py                 *)
(* (EnhancedTelegramBot).  One action is one handler run to completion.    *)
(***************************************************************************)
EXTENDS Integers, Sequences, FiniteSets, Bags, TLC

\* ------------------------------------------------------------ constants
FREE_DOWNLOADS_LIMIT == 5
REFERRALS_REQUIRED == 5
free_downloads_limit == 5
referrals_required == 5
max_downloads_per_hour == 10
WindowSeconds == 3600

\* ------------------------------------------------------------ bounds
\* deliveries in one run of SpecQuota
MaxDownloads == 6
\* deliveries in one run of Spec
MaxReferralDownloads == 3
\* deliveries in one run of SpecUnlock
MaxUnlockDownloads == 2
\* timestamps the rate table holds for a user in SpecCanDownload
MaxStamps == 11
\* downloads_used of a stored row in SpecCanDownload
MaxUsed == 6
\* failed download attempts in one run (all users together)
MaxFailures == 1
\* deliveries in a run of SpecConcurrent
MaxConcurrentDownloads == 7
\* deliveries in a run of SpecResolver
MaxResolverDownloads == 11
\* deliveries in a run of SpecStoreFailure
MaxStoreDownloads == 6
\* deliveries in a run of SpecFiles
MaxFileDownloads == 2
\* files left in the download directory in a run of SpecFiles
MaxLeftFiles == 2
\* updates sent to the bot in a run of SpecPolling
MaxUpdates == 4

VARIABLES
    bot,             \* which entry point runs: "main" or "enhanced"
    users,           \* table users, keyed by user_id
    referrals,       \* table referrals, a bag of rows
    channel_follows, \* table channel_follows, keyed by user_id
    downloads,       \* table downloads (audit log), a bag of rows
    user_downloads,  \* EnhancedTelegramBot.user_downloads: user -> timestamps
    now,             \* the clock read by datetime.now() / time.time()
    delivered,       \* history: media deliveries made to each user
    reply,           \* the last handler run: its inputs and its answer
    inflight,        \* handle_message coroutines suspended at an await
    resolver,        \* the download request being resolved, strategy by strategy
    download_dir,    \* EnhancedTelegramBot.download_dir: the files it holds, a bag
    poller           \* EnhancedTelegramBot.run: the loop and Telegram's update queue

vars == <<bot, users, referrals, channel_follows, downloads, user_downloads,
          now, delivered, reply, inflight, resolver, download_dir, poller>>

\* Python's None (a missing row, a missing value)
None == [none |-> TRUE]

\* Every Telegram user id the model hands to a handler
Users == 1 .. (REFERRALS_REQUIRED + 1)

\* ------------------------------------------------------------ strings
\* A Python str is a sequence of one-character strings.
Digits == <<"0", "1", "2", "3", "4", "5", "6", "7", "8", "9">>

IsDigit(c) == \E i \in 1..10 : Digits[i] = c

DigitValue(c) == (CHOOSE i \in 1..10 : Digits[i] = c) - 1

RECURSIVE DecimalValue(_)
DecimalValue(s) ==
    IF s = <<>> THEN 0
    ELSE 10 * DecimalValue(SubSeq(s, 1, Len(s) - 1)) + DigitValue(s[Len(s)])

\* int(s): an optional sign and at least one digit, else ValueError
int(s) ==
    LET signed == Len(s) > 0 /\ s[1] \in {"+", "-"}
        body   == IF signed THEN SubSeq(s, 2, Len(s)) ELSE s
    IN  IF body # <<>> /\ \A i \in 1..Len(body) : IsDigit(body[i])
        THEN [ok |-> TRUE,
              value |-> IF signed /\ s[1] = "-" THEN 0 - DecimalValue(body)
                        ELSE DecimalValue(body)]
        ELSE [ok |-> FALSE, value |-> 0]

startswith(s, prefix) ==
    Len(s) >= Len(prefix) /\ SubSeq(s, 1, Len(prefix)) = prefix

RefPrefix == <<"r", "e", "f", "_">>

\* str(n) for 0 <= n <= 99
str(n) == IF n < 10 THEN <<Digits[n + 1]>>
          ELSE <<Digits[(n \div 10) + 1], Digits[(n % 10) + 1]>>

\* ReferralSystem.get_referral_link: the start parameter of the link
get_referral_link(user_id) == RefPrefix \o str(user_id)

\* ------------------------------------------------------------ database.py
add_user(us, user_id, profile, t) ==
    [us EXCEPT ![user_id] =
        [username |-> profile.username, first_name |-> profile.first_name,
         downloads_used |-> 0, unlimited_access |-> FALSE,
         joined_date |-> t, last_activity |-> t]]

get_user(us, user_id) == us[user_id]

increment_downloads(us, user_id, t) ==
    IF us[user_id] = None THEN us
    ELSE [us EXCEPT ![user_id].downloads_used = @ + 1,
                    ![user_id].last_activity = t]

ReferralRow(a, b, v) == [referrer_id |-> a, referred_id |-> b, verified |-> v]

\* the rows of a bag satisfying a test, with their multiplicities
Matching(bag, Test(_)) ==
    LET S == {r \in BagToSet(bag) : Test(r)} IN [r \in S |-> bag[r]]

\* add_referral as INSERT OR REPLACE: an existing row is replaced by a new,
\* unverified one
add_referral_Replace(refs, referrer_id, referred_id) ==
    LET other(r) == ~(r.referrer_id = referrer_id /\ r.referred_id = referred_id)
    IN  [referrals |->
            Matching(refs, other)
                (+) SetToBag({ReferralRow(referrer_id, referred_id, FALSE)}),
         success |-> TRUE]

\* add_referral as a plain INSERT: the UNIQUE constraint is not consulted
add_referral_PlainInsert(refs, referrer_id, referred_id) ==
    [referrals |->
        refs (+) SetToBag({ReferralRow(referrer_id, referred_id, FALSE)}),
     success |-> TRUE]

\* add_referral answering True whether or not a row was inserted
add_referral_AlwaysTrue(refs, referrer_id, referred_id) ==
    LET same(r) == r.referrer_id = referrer_id /\ r.referred_id = referred_id
    IN  IF \E r \in BagToSet(refs) : same(r)
        THEN [referrals |-> refs, success |-> TRUE]
        ELSE [referrals |->
                refs (+) SetToBag({ReferralRow(referrer_id, referred_id, FALSE)}),
              success |-> TRUE]

add_referral(refs, referrer_id, referred_id) ==
    LET same(r) == r.referrer_id = referrer_id /\ r.referred_id = referred_id
    IN  IF \E r \in BagToSet(refs) : same(r)
        THEN [referrals |-> refs, success |-> FALSE]
        ELSE [referrals |->
                refs (+) SetToBag({ReferralRow(referrer_id, referred_id, FALSE)}),
              success |-> TRUE]

get_referral_count(refs, user_id) ==
    LET counted(r) == r.referrer_id = user_id /\ r.verified
    IN  BagCardinality(Matching(refs, counted))

\* verify_referral as UPDATE ... SET verified = NOT verified
verify_referral_Toggle(refs, referrer_id, referred_id) ==
    LET same(r)  == r.referrer_id = referrer_id /\ r.referred_id = referred_id
        other(r) == ~same(r)
        hit      == Matching(refs, same)
        flipped  == {ReferralRow(referrer_id, referred_id, ~r.verified) :
                        r \in BagToSet(hit)}
    IN  [referrals |-> Matching(refs, other) (+) SetToBag(flipped),
         success |-> BagCardinality(hit) > 0]

verify_referral(refs, referrer_id, referred_id) ==
    LET same(r)  == r.referrer_id = referrer_id /\ r.referred_id = referred_id
        other(r) == ~same(r)
        rowcount == BagCardinality(Matching(refs, same))
        set      == [r \in {ReferralRow(referrer_id, referred_id, TRUE)}
                        |-> rowcount]
    IN  [referrals |-> IF rowcount > 0 THEN Matching(refs, other) (+) set
                       ELSE refs,
         success |-> rowcount > 0]

set_channel_follow(cf, user_id, followed, t) ==
    [cf EXCEPT ![user_id] =
        [followed |-> followed, verified_date |-> IF followed THEN t ELSE -1]]

is_channel_followed(cf, user_id) ==
    IF cf[user_id] = None THEN FALSE ELSE cf[user_id].followed

grant_unlimited_access(us, user_id) ==
    IF us[user_id] = None THEN us
    ELSE [us EXCEPT ![user_id].unlimited_access = TRUE]

log_download(log, user_id, success) ==
    log (+) SetToBag({[user_id |-> user_id, success |-> success]})

\* ------------------------------------------------------------ referral_system.py
\* `live` is what bot.get_chat_member yields in this call: a ChatMember status,
\* or "error" when the call raises TelegramError.
\* check_channel_membership answering True when the API call fails
check_channel_membership_FailOpen(cf, user_id, live, t) ==
    IF live = "error"
    THEN [is_member |-> TRUE, channel_follows |-> cf]
    ELSE LET is_member == live \in {"member", "administrator", "creator"}
         IN  [is_member |-> is_member,
              channel_follows |-> set_channel_follow(cf, user_id, is_member, t)]

\* check_channel_membership counting users who left or were banned as members
check_channel_membership_LeftCounts(cf, user_id, live, t) ==
    IF live = "error"
    THEN [is_member |-> FALSE, channel_follows |-> cf]
    ELSE LET is_member ==
                 live \in {"member", "administrator", "creator", "left", "kicked"}
         IN  [is_member |-> is_member,
              channel_follows |-> set_channel_follow(cf, user_id, is_member, t)]

check_channel_membership(cf, user_id, live, t) ==
    IF live = "error"
    THEN [is_member |-> FALSE, channel_follows |-> cf]
    ELSE LET is_member == live \in {"member", "administrator", "creator"}
         IN  [is_member |-> is_member,
              channel_follows |-> set_channel_follow(cf, user_id, is_member, t)]

\* process_referral verifying every new edge at once, whatever the referred
\* user has downloaded
process_referral_VerifiesAtOnce(refs, us, referrer_id, referred_id) ==
    IF referrer_id = referred_id
    THEN [referrals |-> refs, success |-> FALSE]
    ELSE LET added == add_referral(refs, referrer_id, referred_id)
         IN  IF added.success
             THEN [referrals |->
                     verify_referral(added.referrals, referrer_id, referred_id).referrals,
                   success |-> TRUE]
             ELSE added

\* process_referral without the self-referral test of line 30
process_referral_NoSelfCheck(refs, us, referrer_id, referred_id) ==
    LET added == add_referral(refs, referrer_id, referred_id)
        referred_user == get_user(us, referred_id)
    IN  IF added.success /\ referred_user # None
           /\ referred_user.downloads_used > 0
        THEN [referrals |->
                verify_referral(added.referrals, referrer_id, referred_id).referrals,
              success |-> TRUE]
        ELSE added

process_referral(refs, us, referrer_id, referred_id) ==
    IF referrer_id = referred_id
    THEN [referrals |-> refs, success |-> FALSE]
    ELSE LET added == add_referral(refs, referrer_id, referred_id)
             referred_user == get_user(us, referred_id)
         IN  IF added.success /\ referred_user # None
                /\ referred_user.downloads_used > 0
             THEN [referrals |->
                     verify_referral(added.referrals, referrer_id, referred_id).referrals,
                   success |-> TRUE]
             ELSE added

verify_referral_requirements(refs, cf, user_id) ==
    LET referral_count   == get_referral_count(refs, user_id)
        referrals_met    == referral_count >= REFERRALS_REQUIRED
        channel_followed == is_channel_followed(cf, user_id)
    IN  [referrals_count |-> referral_count,
         referrals_required |-> REFERRALS_REQUIRED,
         referrals_met |-> referrals_met,
         channel_followed |-> channel_followed,
         all_requirements_met |-> referrals_met /\ channel_followed]

\* verify_and_grant_access deciding on the stored followed flag
verify_and_grant_access_FromCache(us, refs, cf, user_id, live, t) ==
    LET check   == check_channel_membership(cf, user_id, live, t)
        status  == verify_referral_requirements(refs, check.channel_follows, user_id)
        all_met == status.all_requirements_met
        user    == get_user(us, user_id)
        grant   == all_met /\ user # None /\ ~user.unlimited_access
    IN  [users |-> IF grant THEN grant_unlimited_access(us, user_id) ELSE us,
         channel_follows |-> check.channel_follows,
         status |-> [referrals_count |-> status.referrals_count,
                     referrals_required |-> status.referrals_required,
                     referrals_met |-> status.referrals_met,
                     channel_followed |-> status.channel_followed,
                     all_requirements_met |-> all_met,
                     access_granted |-> grant,
                     already_unlimited |-> all_met /\ ~grant]]

\* The status dict has no key already_unlimited unless line 79 sets it; callers
\* read it with status.get, so a missing key is modelled as FALSE.
verify_and_grant_access(us, refs, cf, user_id, live, t) ==
    LET check   == check_channel_membership(cf, user_id, live, t)
        status0 == verify_referral_requirements(refs, check.channel_follows, user_id)
        all_met == status0.referrals_met /\ check.is_member
        status  == [status0 EXCEPT !.channel_followed = check.is_member,
                                   !.all_requirements_met = all_met]
        user    == get_user(us, user_id)
        grant   == all_met /\ user # None /\ ~user.unlimited_access
    IN  [users |-> IF grant THEN grant_unlimited_access(us, user_id) ELSE us,
         channel_follows |-> check.channel_follows,
         status |-> [referrals_count |-> status.referrals_count,
                     referrals_required |-> status.referrals_required,
                     referrals_met |-> status.referrals_met,
                     channel_followed |-> status.channel_followed,
                     all_requirements_met |-> status.all_requirements_met,
                     access_granted |-> grant,
                     already_unlimited |-> all_met /\ ~grant]]

\* extract_referrer_from_start_param reading any integer, prefixed or not
extract_referrer_from_start_param_AnyInteger(start_param) ==
    IF start_param # <<>> /\ startswith(start_param, RefPrefix)
    THEN int(SubSeq(start_param, 5, Len(start_param)))
    ELSE int(start_param)

extract_referrer_from_start_param(start_param) ==
    IF start_param # <<>> /\ startswith(start_param, RefPrefix)
    THEN int(SubSeq(start_param, 5, Len(start_param)))
    ELSE [ok |-> FALSE, value |-> 0]

\* the referrers of the unverified rows whose referred_id is user_id
PendingReferrers(refs, user_id) ==
    {r.referrer_id : r \in {x \in BagToSet(refs) :
                              x.referred_id = user_id /\ ~x.verified}}

RECURSIVE VerifyEach(_, _, _)
VerifyEach(refs, referrers, user_id) ==
    IF referrers = {} THEN refs
    ELSE LET a == CHOOSE x \in referrers : TRUE
         IN  VerifyEach(verify_referral(refs, a, user_id).referrals,
                        referrers \ {a}, user_id)

\* auto_verify_active_referrals verifying nothing
auto_verify_active_referrals_Nothing(refs, user_id) == refs

auto_verify_active_referrals(refs, user_id) ==
    VerifyEach(refs, PendingReferrers(refs, user_id), user_id)

\* ------------------------------------------------------------ handlers
\* A handler is an operator from the stored state (a record of the tables, the
\* rate table and the delivery history) and its inputs to the state it leaves
\* and the answer it sends.
Answer(st, rep) == [state |-> st, reply |-> rep]

DownloadsLeft(limit, user) ==
    IF limit > user.downloads_used THEN limit - user.downloads_used ELSE 0

\* ------------------------------------------------------------ main.py
\* /start: DownloadBot.start_command.  `args` is context.args[0], <<>> if none.
start_command(st, u, profile, args, t) ==
    LET users1    == add_user(st.users, u, profile, t)
        referrer  == extract_referrer_from_start_param(args)
        refer     == args # <<>> /\ referrer.ok /\ referrer.value # 0
                       /\ referrer.value # u
        done      == IF refer
                     THEN process_referral(st.referrals, users1, referrer.value, u)
                     ELSE [referrals |-> st.referrals, success |-> FALSE]
        user_data == get_user(users1, u)
    IN  Answer([st EXCEPT !.users = users1, !.referrals = done.referrals],
               [op |-> "start", user |-> u, args |-> args,
                notified |-> IF done.success THEN referrer.value ELSE 0,
                unlimited |-> user_data.unlimited_access,
                downloads_left |-> DownloadsLeft(FREE_DOWNLOADS_LIMIT, user_data)])

\* /verify: DownloadBot.verify_command
verify_command(st, u, live, t) ==
    LET r == verify_and_grant_access(st.users, st.referrals, st.channel_follows,
                                     u, live, t)
    IN  Answer([st EXCEPT !.users = r.users, !.channel_follows = r.channel_follows],
               [op |-> "verify", user |-> u, live |-> live, status |-> r.status,
                text |-> IF r.status.already_unlimited THEN "already_unlimited"
                         ELSE IF r.status.access_granted THEN "congratulations"
                         ELSE "verification_results"])

\* A text message: DownloadBot.handle_message.  `text` tells whether
\* extract_urls_from_text finds a URL; `result` is how the download ends:
\*   "success"         result['success'] is true and the answer is sent,
\*   "failure"         result['success'] is false,
\*   "raises"          the download call raises (or yields None),
\*   "success_raises"  result['success'] is true, then building the answer raises.
handle_message(st, u, profile, text, result, t) ==
    LET users1    == IF get_user(st.users, u) = None
                     THEN add_user(st.users, u, profile, t) ELSE st.users
        user_data == get_user(users1, u)
        first     == user_data.downloads_used = 0
        st1       == [st EXCEPT !.users = users1]
        logged    == log_download(st.downloads, u, TRUE)
    IN  IF ~user_data.unlimited_access
           /\ user_data.downloads_used >= FREE_DOWNLOADS_LIMIT
        THEN Answer(st1, [op |-> "message", user |-> u, outcome |-> "limit_exceeded"])
        ELSE IF text = "no_url"
        THEN Answer(st1, [op |-> "message", user |-> u, outcome |-> "no_url"])
        ELSE IF result \in {"success", "success_raises"}
        THEN LET st2 == [st1 EXCEPT
                           !.users = increment_downloads(users1, u, t),
                           !.referrals =
                               IF first
                               THEN auto_verify_active_referrals(st.referrals, u)
                               ELSE st.referrals]
             IN  IF result = "success"
                 THEN Answer([st2 EXCEPT !.downloads = logged,
                                         !.delivered[u] = @ + 1],
                             [op |-> "message", user |-> u, outcome |-> "delivered"])
                 ELSE Answer([st2 EXCEPT
                                !.downloads = log_download(logged, u, FALSE)],
                             [op |-> "message", user |-> u, outcome |-> "download_failed"])
        ELSE Answer([st1 EXCEPT !.downloads = log_download(st.downloads, u, FALSE)],
                    [op |-> "message", user |-> u, outcome |-> "download_failed"])

\* DownloadBot.handle_message up to its first await on the download path
\* (lines 247-283): the row is read (and created if missing), the limit is
\* tested and the URL extracted.  The coroutine keeps user_data, the row as
\* it was read here.
admit(st, u, profile, text, t) ==
    LET users1    == IF get_user(st.users, u) = None
                     THEN add_user(st.users, u, profile, t) ELSE st.users
        user_data == get_user(users1, u)
    IN  [state |-> [st EXCEPT !.users = users1],
         user_data |-> user_data,
         outcome |->
            IF ~user_data.unlimited_access
               /\ user_data.downloads_used >= FREE_DOWNLOADS_LIMIT
            THEN "limit_exceeded"
            ELSE IF text = "no_url" THEN "no_url" ELSE "admitted"]

\* complete writing back the counter it read at admission plus one
complete_FromSnapshot(st, u, user_data, result, t) ==
    IF result = "success"
    THEN Answer([st EXCEPT
                   !.users[u].downloads_used = user_data.downloads_used + 1,
                   !.referrals = IF user_data.downloads_used = 0
                                 THEN auto_verify_active_referrals(st.referrals, u)
                                 ELSE st.referrals,
                   !.downloads = log_download(st.downloads, u, TRUE),
                   !.delivered[u] = @ + 1],
                [op |-> "complete", user |-> u, outcome |-> "delivered",
                 seen |-> user_data.downloads_used])
    ELSE Answer([st EXCEPT !.downloads = log_download(st.downloads, u, FALSE)],
                [op |-> "complete", user |-> u, outcome |-> "download_failed",
                 seen |-> user_data.downloads_used])

\* DownloadBot.handle_message from the return of the awaited download on
\* (lines 292-356), run without an await up to the final edit of the message:
\* the counter is raised by the UPDATE of increment_downloads, the pending
\* referrals are verified if the row read at admission had downloads_used = 0.
complete(st, u, user_data, result, t) ==
    IF result = "success"
    THEN Answer([st EXCEPT
                   !.users = increment_downloads(st.users, u, t),
                   !.referrals = IF user_data.downloads_used = 0
                                 THEN auto_verify_active_referrals(st.referrals, u)
                                 ELSE st.referrals,
                   !.downloads = log_download(st.downloads, u, TRUE),
                   !.delivered[u] = @ + 1],
                [op |-> "complete", user |-> u, outcome |-> "delivered",
                 seen |-> user_data.downloads_used])
    ELSE Answer([st EXCEPT !.downloads = log_download(st.downloads, u, FALSE)],
                [op |-> "complete", user |-> u, outcome |-> "download_failed",
                 seen |-> user_data.downloads_used])

\* ------------------------------------------------------------ enhanced_bot.py
\* Database.set_channel_follow of enhanced_bot.py stamps every row
Enh_set_channel_follow(cf, user_id, followed, t) ==
    [cf EXCEPT ![user_id] = [followed |-> followed, verified_date |-> t]]

\* `live`: a ChatMember status, "not_ok" when the API answers ok = false,
\* "error" when the request raises.
Enh_check_channel_membership(cf, user_id, live, t) ==
    IF live \in {"error", "not_ok"}
    THEN [is_member |-> FALSE, channel_follows |-> cf]
    ELSE LET is_member == live \in {"member", "administrator", "creator"}
         IN  [is_member |-> is_member,
              channel_follows |-> Enh_set_channel_follow(cf, user_id, is_member, t)]

Recent(stamps, t) == SelectSeq(stamps, LAMBDA ts : t - ts < WindowSeconds)

\* can_download letting the hourly window decide for every known free user
can_download_WindowDecides(us, ud, user_id, t) ==
    LET user == get_user(us, user_id)
    IN  IF user = None THEN [allowed |-> TRUE, user_downloads |-> ud]
        ELSE IF user.unlimited_access THEN [allowed |-> TRUE, user_downloads |-> ud]
        ELSE LET kept == Recent(ud[user_id], t)
             IN  [allowed |-> Len(kept) < max_downloads_per_hour,
                  user_downloads |-> [ud EXCEPT ![user_id] = kept]]

\* can_download counting every stored timestamp, whatever its age
can_download_CountsAll(us, ud, user_id, t) ==
    LET user == get_user(us, user_id)
    IN  IF user = None THEN [allowed |-> TRUE, user_downloads |-> ud]
        ELSE IF user.unlimited_access THEN [allowed |-> TRUE, user_downloads |-> ud]
        ELSE IF user.downloads_used >= free_downloads_limit
        THEN [allowed |-> FALSE, user_downloads |-> ud]
        ELSE [allowed |-> Len(ud[user_id]) < max_downloads_per_hour,
              user_downloads |-> ud]

can_download(us, ud, user_id, t) ==
    LET user == get_user(us, user_id)
    IN  IF user = None THEN [allowed |-> TRUE, user_downloads |-> ud]
        ELSE IF user.unlimited_access THEN [allowed |-> TRUE, user_downloads |-> ud]
        ELSE IF user.downloads_used >= free_downloads_limit
        THEN [allowed |-> FALSE, user_downloads |-> ud]
        ELSE LET kept == Recent(ud[user_id], t)
             IN  [allowed |-> Len(kept) < max_downloads_per_hour,
                  user_downloads |-> [ud EXCEPT ![user_id] = kept]]

verify_pending_referrals(refs, user_id) ==
    VerifyEach(refs, PendingReferrers(refs, user_id), user_id)

record_download(st, user_id, t) ==
    LET user == get_user(st.users, user_id)
    IN  [st EXCEPT
           !.user_downloads[user_id] = Append(@, t),
           !.referrals = IF user # None /\ user.downloads_used = 0
                         THEN verify_pending_referrals(st.referrals, user_id)
                         ELSE st.referrals,
           !.users = increment_downloads(st.users, user_id, t)]

\* "/start" or "/start <args>": handle_start_command
handle_start_command(st, u, profile, args, t) ==
    LET users1   == add_user(st.users, u, profile, t)
        referrer == IF args # <<>> /\ startswith(args, RefPrefix)
                    THEN int(SubSeq(args, 5, Len(args)))
                    ELSE [ok |-> FALSE, value |-> 0]
        done     == IF referrer.ok /\ referrer.value # u
                    THEN add_referral(st.referrals, referrer.value, u)
                    ELSE [referrals |-> st.referrals, success |-> FALSE]
        user     == get_user(users1, u)
    IN  Answer([st EXCEPT !.users = users1, !.referrals = done.referrals],
               [op |-> "start", user |-> u, args |-> args,
                notified |-> IF done.success THEN referrer.value ELSE 0,
                unlimited |-> user.unlimited_access,
                downloads_left |-> DownloadsLeft(free_downloads_limit, user)])

\* "/verify": handle_verify_command.  With no row for the sender, line 831
\* raises TypeError, which run() logs: no answer is sent.
handle_verify_command(st, u, live, t) ==
    LET check   == Enh_check_channel_membership(st.channel_follows, u, live, t)
        count   == get_referral_count(st.referrals, u)
        all_met == count >= referrals_required /\ check.is_member
        user    == get_user(st.users, u)
        raises  == all_met /\ user = None
        grant   == all_met /\ user # None /\ ~user.unlimited_access
    IN  Answer([st EXCEPT
                  !.channel_follows = check.channel_follows,
                  !.users = IF grant THEN grant_unlimited_access(st.users, u)
                            ELSE st.users],
               [op |-> "verify", user |-> u, live |-> live,
                status |-> [referrals_count |-> count,
                            referrals_required |-> referrals_required,
                            referrals_met |-> count >= referrals_required,
                            channel_followed |-> check.is_member,
                            all_requirements_met |-> all_met,
                            access_granted |-> grant,
                            already_unlimited |-> all_met /\ ~grant /\ ~raises],
                text |-> IF raises THEN "exception"
                         ELSE IF grant THEN "congratulations"
                         ELSE IF all_met THEN "already_unlimited"
                         ELSE "verification_results"])

\* any other text: EnhancedTelegramBot.handle_message from line 981 on.  `text`
\* tells whether the message holds a URL of a supported platform; `result` is
\* what download_media returns ("success" or "failure").
Enh_handle_message(st, u, profile, text, result, t) ==
    LET users1 == add_user(st.users, u, profile, t)
        st1    == [st EXCEPT !.users = users1]
        can    == can_download(users1, st.user_downloads, u, t)
        st2    == [st1 EXCEPT !.user_downloads = can.user_downloads]
        user   == get_user(users1, u)
    IN  IF text = "no_url"
        THEN Answer(st1, [op |-> "message", user |-> u, outcome |-> "no_url"])
        ELSE IF ~can.allowed /\ user # None /\ ~user.unlimited_access
        THEN Answer(st2, [op |-> "message", user |-> u,
                          outcome |->
                            IF user.downloads_used >= free_downloads_limit
                            THEN "limit_exceeded" ELSE "rate_limited"])
        ELSE IF result = "success"
        THEN Answer([record_download(st2, u, t) EXCEPT !.delivered[u] = @ + 1],
                    [op |-> "message", user |-> u, outcome |-> "delivered"])
        ELSE Answer(st2, [op |-> "message", user |-> u, outcome |-> "download_failed"])

\* ------------------------------------------------------------ URLs
\* A URL is its netloc and the rest (path and query), each a sequence of
\* characters, lower case as after url.lower(); urlparse(url).netloc is the
\* netloc field, the text the regular expressions and the `in` tests see is
\* scheme, netloc and rest joined.
Scheme == <<"h", "t", "t", "p", "s", ":", "/", "/">>

Url(netloc, rest) == [netloc |-> netloc, rest |-> rest]

Text(url) == Scheme \o url.netloc \o url.rest

\* Python's `sub in s`
Contains(s, sub) ==
    \E i \in 1..(Len(s) - Len(sub) + 1) : SubSeq(s, i, i + Len(sub) - 1) = sub

\* Python's s.endswith(suffix)
endswith(s, suffix) ==
    /\ Len(suffix) <= Len(s)
    /\ SubSeq(s, Len(s) - Len(suffix) + 1, Len(s)) = suffix

\* utils.detect_platform: the first domain found anywhere in the URL decides
PlatformTable ==
    <<[platform |-> "Instagram", domains |-> {<<"i", "n", "s", "t", "a", "g", "r", "a", "m", ".", "c", "o", "m">>}],
      [platform |-> "YouTube", domains |-> {<<"y", "o", "u", "t", "u", "b", "e", ".", "c", "o", "m">>, <<"y", "o", "u", "t", "u", ".", "b", "e">>}],
      [platform |-> "TikTok", domains |-> {<<"t", "i", "k", "t", "o", "k", ".", "c", "o", "m">>}],
      [platform |-> "Twitter", domains |-> {<<"t", "w", "i", "t", "t", "e", "r", ".", "c", "o", "m">>, <<"x", ".", "c", "o", "m">>}],
      [platform |-> "Facebook", domains |-> {<<"f", "a", "c", "e", "b", "o", "o", "k", ".", "c", "o", "m">>, <<"f", "b", ".", "c", "o", "m">>}],
      [platform |-> "Vimeo", domains |-> {<<"v", "i", "m", "e", "o", ".", "c", "o", "m">>}],
      [platform |-> "Dailymotion", domains |-> {<<"d", "a", "i", "l", "y", "m", "o", "t", "i", "o", "n", ".", "c", "o", "m">>}],
      [platform |-> "Twitch", domains |-> {<<"t", "w", "i", "t", "c", "h", ".", "t", "v">>}]>>

detect_platform(url) ==
    LET hit(i) == \E d \in PlatformTable[i].domains : Contains(Text(url), d)
    IN  IF \E i \in 1..Len(PlatformTable) : hit(i)
        THEN PlatformTable[CHOOSE i \in 1..Len(PlatformTable) :
                              hit(i) /\ \A j \in 1..(i - 1) : ~hit(j)].platform
        ELSE "Other Platform"

\* EnhancedTelegramBot.supported_platforms
supported_platforms ==
    <<[platform |-> "tiktok",
       domains |-> {<<"t", "i", "k", "t", "o", "k", ".", "c", "o", "m">>,
                    <<"v", "m", ".", "t", "i", "k", "t", "o", "k", ".", "c", "o", "m">>,
                    <<"v", "t", ".", "t", "i", "k", "t", "o", "k", ".", "c", "o", "m">>,
                    <<"m", ".", "t", "i", "k", "t", "o", "k", ".", "c", "o", "m">>}],
      [platform |-> "youtube",
       domains |-> {<<"y", "o", "u", "t", "u", "b", "e", ".", "c", "o", "m">>,
                    <<"y", "o", "u", "t", "u", ".", "b", "e">>,
                    <<"m", ".", "y", "o", "u", "t", "u", "b", "e", ".", "c", "o", "m">>}],
      [platform |-> "instagram",
       domains |-> {<<"i", "n", "s", "t", "a", "g", "r", "a", "m", ".", "c", "o", "m">>,
                    <<"i", "n", "s", "t", "a", "g", "r", ".", "a", "m">>,
                    <<"w", "w", "w", ".", "i", "n", "s", "t", "a", "g", "r", "a", "m", ".", "c", "o", "m">>}],
      [platform |-> "twitter",
       domains |-> {<<"t", "w", "i", "t", "t", "e", "r", ".", "c", "o", "m">>,
                    <<"x", ".", "c", "o", "m">>,
                    <<"t", ".", "c", "o">>}],
      [platform |-> "facebook",
       domains |-> {<<"f", "a", "c", "e", "b", "o", "o", "k", ".", "c", "o", "m">>,
                    <<"f", "b", ".", "w", "a", "t", "c", "h">>,
                    <<"m", ".", "f", "a", "c", "e", "b", "o", "o", "k", ".", "c", "o", "m">>}]>>

\* EnhancedTelegramBot.detect_platform: the netloc ends with, or is, a domain
\* of the table; None otherwise
Enh_detect_platform(url) ==
    LET hit(i) == \E d \in supported_platforms[i].domains :
                      endswith(url.netloc, d) \/ url.netloc = d
    IN  IF \E i \in 1..Len(supported_platforms) : hit(i)
        THEN [platform |->
                supported_platforms[CHOOSE i \in 1..Len(supported_platforms) :
                                       hit(i) /\ \A j \in 1..(i - 1) : ~hit(j)].platform]
        ELSE None

\* InstagramDownloader.is_instagram_url
is_instagram_url(url) ==
    url.netloc \in {<<"i", "n", "s", "t", "a", "g", "r", "a", "m", ".", "c", "o", "m">>, <<"w", "w", "w", ".", "i", "n", "s", "t", "a", "g", "r", "a", "m", ".", "c", "o", "m">>}

\* the characters of [A-Za-z0-9_-]
ShortcodeChars ==
    {"a", "b", "c", "d", "e", "f", "g", "h", "i", "j", "k", "l", "m", "n", "o", "p", "q", "r", "s", "t", "u", "v", "w", "x", "y", "z"}
    \cup {"A", "B", "C", "D", "E", "F", "G", "H", "I", "J", "K", "L", "M", "N", "O", "P", "Q", "R", "S", "T", "U", "V", "W", "X", "Y", "Z"}
    \cup {"0", "1", "2", "3", "4", "5", "6", "7", "8", "9", "_", "-"}

\* the longest run of shortcode characters of s from position i on
RECURSIVE Run(_, _)
Run(s, i) ==
    IF i <= Len(s) /\ s[i] \in ShortcodeChars THEN <<s[i]>> \o Run(s, i + 1)
    ELSE <<>>

\* InstagramDownloader.extract_shortcode: re.search of instagram\.com/p/(...),
\* then /reel/, then /tv/; None when no pattern matches
ShortcodePatterns ==
    <<<<"i", "n", "s", "t", "a", "g", "r", "a", "m", ".", "c", "o", "m", "/", "p", "/">>,
      <<"i", "n", "s", "t", "a", "g", "r", "a", "m", ".", "c", "o", "m", "/", "r", "e", "e", "l", "/">>,
      <<"i", "n", "s", "t", "a", "g", "r", "a", "m", ".", "c", "o", "m", "/", "t", "v", "/">>>>

extract_shortcode(url) ==
    LET s == Text(url)
        at(k, i) == /\ i + Len(ShortcodePatterns[k]) <= Len(s)
                    /\ SubSeq(s, i, i + Len(ShortcodePatterns[k]) - 1)
                          = ShortcodePatterns[k]
                    /\ s[i + Len(ShortcodePatterns[k])] \in ShortcodeChars
        found(k) == \E i \in 1..Len(s) : at(k, i)
    IN  IF \E k \in 1..3 : found(k)
        THEN LET k == CHOOSE x \in 1..3 : found(x) /\ \A y \in 1..(x - 1) : ~found(y)
                 i == CHOOSE x \in 1..Len(s) :
                         at(k, x) /\ \A y \in 1..(x - 1) : ~at(k, y)
             IN  [shortcode |-> Run(s, i + Len(ShortcodePatterns[k]))]
        ELSE None

\* ------------------------------------------------------------ resolver
\* What the service behind a strategy does in one invocation:
\*   "raises"             the library or the request raises an exception,
\*   "nothing"            no post, no matching page, no info, no API key,
\*   "media"              media is found and its URL is given,
\*   "media_without_url"  media is described but no URL is given (info without
\*                        'url', a media item without 'url').
Outcomes == {"raises", "nothing", "media", "media_without_url"}

\* str(e) of an exception raised by the extraction library
UpstreamErrorText == "HTTP Error 429: Too Many Requests"

AllMethodsFailed ==
    "All download methods failed. The content might be private, deleted, or require login."

NotInstagram == "Not a valid Instagram URL"

UnexpectedError == "An unexpected error occurred. Please try again."

Enh_PrivateOrDeleted == "Instagram content may be private, deleted, or require login"

NoFileDownloaded == "No file was downloaded"

NoneTypeError == "argument of type 'NoneType' is not iterable"

\* a media URL handed out by a service; Python's None when there is none
MediaUrl == [href |-> "https://cdn.example/v.mp4"]

DownloadedFile == [path |-> "downloads/a1b2c3d4_video.mp4"]

Descriptor(u, m) == [url |-> u, method |-> m]

\* instagram_downloader.py: each strategy returns a descriptor or None; every
\* exception is caught inside the strategy and None returned.
download_with_enhanced_scraping(url, env) ==
    IF extract_shortcode(url) = None THEN None
    ELSE IF env = "media"
    THEN Descriptor(MediaUrl, "enhanced_scraping_Mozilla/5.0 (iPhone;")
    ELSE None

download_with_yt_dlp(url, env) ==
    IF env = "media" THEN Descriptor(MediaUrl, "yt-dlp")
    ELSE IF env = "media_without_url" THEN Descriptor(None, "yt-dlp")
    ELSE None

download_with_instaloader(url, env) ==
    IF extract_shortcode(url) = None THEN None
    ELSE IF env = "media" THEN Descriptor(MediaUrl, "instaloader")
    ELSE IF env = "media_without_url" THEN Descriptor(None, "instaloader")
    ELSE None

download_with_api(url, env) ==
    IF extract_shortcode(url) = None THEN None
    ELSE IF env = "media" THEN Descriptor(MediaUrl, "oembed")
    ELSE None

download_with_rapidapi(url, env) ==
    IF env = "media" THEN Descriptor(MediaUrl, "rapidapi")
    ELSE IF env = "media_without_url" THEN Descriptor(None, "rapidapi")
    ELSE None

\* InstagramDownloader.download, lines 308-314: the strategies in their order
methods ==
    <<"download_with_enhanced_scraping", "download_with_yt_dlp",
      "download_with_instaloader", "download_with_api", "download_with_rapidapi">>

call(method, url, env) ==
    CASE method = "download_with_enhanced_scraping" ->
            download_with_enhanced_scraping(url, env)
      [] method = "download_with_yt_dlp" -> download_with_yt_dlp(url, env)
      [] method = "download_with_instaloader" -> download_with_instaloader(url, env)
      [] method = "download_with_api" -> download_with_api(url, env)
      [] method = "download_with_rapidapi" -> download_with_rapidapi(url, env)

\* a chain that goes on to the next strategy after one has answered
try_next_KeepsGoing(r, env) ==
    LET method   == r.chain[Len(r.calls) + 1]
        returned == call(method, r.url, env)
        calls    == Append(r.calls, [method |-> method, env |-> env,
                                     returned |-> returned])
    IN  IF Len(calls) = Len(r.chain)
        THEN [r EXCEPT !.calls = calls, !.phase = "returned",
                       !.result = IF returned # None
                                  THEN [success |-> TRUE, data |-> returned]
                                  ELSE [success |-> FALSE, error |-> AllMethodsFailed]]
        ELSE [r EXCEPT !.calls = calls]

\* a chain that an exception of a strategy ends
try_next_StopsOnError(r, env) ==
    LET method   == r.chain[Len(r.calls) + 1]
        returned == call(method, r.url, env)
        calls    == Append(r.calls, [method |-> method, env |-> env,
                                     returned |-> returned])
    IN  IF env = "raises"
        THEN [r EXCEPT !.calls = calls, !.phase = "returned",
                       !.result = [success |-> FALSE, error |-> UpstreamErrorText]]
        ELSE IF returned # None
        THEN [r EXCEPT !.calls = calls, !.phase = "returned",
                       !.result = [success |-> TRUE, data |-> returned]]
        ELSE IF Len(calls) = Len(r.chain)
        THEN [r EXCEPT !.calls = calls, !.phase = "returned",
                       !.result = [success |-> FALSE, error |-> AllMethodsFailed]]
        ELSE [r EXCEPT !.calls = calls]

\* One turn of the loop of InstagramDownloader.download (lines 316-331) on the
\* request r: the next strategy is awaited; a truthy result is returned as
\* success; after the last strategy the aggregate failure is returned.
try_next(r, env) ==
    LET method   == r.chain[Len(r.calls) + 1]
        returned == call(method, r.url, env)
        calls    == Append(r.calls, [method |-> method, env |-> env,
                                     returned |-> returned])
    IN  IF returned # None
        THEN [r EXCEPT !.calls = calls, !.phase = "returned",
                       !.result = [success |-> TRUE, data |-> returned]]
        ELSE IF Len(calls) = Len(r.chain)
        THEN [r EXCEPT !.calls = calls, !.phase = "returned",
                       !.result = [success |-> FALSE, error |-> AllMethodsFailed]]
        ELSE [r EXCEPT !.calls = calls]

\* utils.download_with_ytdlp: the generic extractor; None when extract_info
\* yields nothing (the function falls off its end)
download_with_ytdlp(url, env) ==
    IF env = "raises" THEN [success |-> FALSE, error |-> UpstreamErrorText]
    ELSE IF env = "nothing" THEN None
    ELSE IF env = "media"
    THEN [success |-> TRUE, data |-> Descriptor(MediaUrl, "yt-dlp")]
    ELSE [success |-> TRUE, data |-> Descriptor(None, "yt-dlp")]

\* main.py 292-356: the message that replaces the processing message.  With
\* result = None, result['success'] raises TypeError and the except branch
\* answers.
Shown(result) ==
    IF result = None THEN [kind |-> "download_failed", error |-> UnexpectedError]
    ELSE IF result.success
    THEN [kind |-> "download_complete", link |-> result.data.url]
    ELSE [kind |-> "download_failed", error |-> result.error]

\* main.py 285-356 once the download call has returned `result`
main_finish(st, r, result, t) ==
    LET outcome == IF result = None THEN "raises"
                   ELSE IF result.success THEN "success" ELSE "failure"
        answer  == complete(st, r.user, r.user_data, outcome, t)
    IN  [state |-> answer.state, reply |-> answer.reply,
         resolver |-> [r EXCEPT !.phase = "done", !.result = result,
                                !.shown = Shown(result)]]

\* main.py 247-290 and instagram_downloader.py 301-305: admission, then the
\* choice of the downloader; a URL that names Instagram somewhere but whose
\* netloc is not Instagram's is refused by InstagramDownloader.download.
main_request(st, u, profile, url, t) ==
    LET a     == admit(st, u, profile, "url", t)
        chain == IF detect_platform(url) = "Instagram"
                 THEN IF is_instagram_url(url) THEN methods ELSE <<>>
                 ELSE <<"download_with_ytdlp">>
        r     == [phase |-> "running", user |-> u, user_data |-> a.user_data,
                  url |-> url, chain |-> chain, calls |-> <<>>,
                  result |-> None, shown |-> None]
    IN  IF a.outcome # "admitted"
        THEN [state |-> a.state,
              reply |-> [op |-> "admit", user |-> u, outcome |-> a.outcome],
              resolver |-> [r EXCEPT !.phase = "done", !.chain = <<>>,
                                     !.shown = [kind |-> a.outcome]]]
        ELSE IF chain = <<>>
        THEN main_finish(a.state, r, [success |-> FALSE, error |-> NotInstagram], t)
        ELSE [state |-> a.state,
              reply |-> [op |-> "admit", user |-> u, outcome |-> a.outcome],
              resolver |-> r]

\* the next awaited download call of the request r, and what follows it
main_invoke(st, r, env, t) ==
    IF r.chain = <<"download_with_ytdlp">>
    THEN LET result == download_with_ytdlp(r.url, env)
             r1 == [r EXCEPT !.calls = Append(@, [method |-> "download_with_ytdlp",
                                                  env |-> env,
                                                  returned |-> result])]
         IN  main_finish(st, r1, result, t)
    ELSE LET r1 == try_next(r, env)
         IN  IF r1.phase = "returned" THEN main_finish(st, r1, r1.result, t)
             ELSE [state |-> st, reply |-> [op |-> "invoke", user |-> r.user],
                   resolver |-> r1]

\* ---- enhanced_bot.py
\* InstagramDownloader.download_with_instaloader: the file is fetched from
\* post.video_url / post.url and written; any exception gives None
Enh_download_with_instaloader(url, env) ==
    IF extract_shortcode(url) = None THEN None
    ELSE IF env = "media"
    THEN [success |-> TRUE, filepath |-> DownloadedFile, platform |-> "instagram",
          method |-> "instaloader"]
    ELSE None

Enh_download_with_scraping(url, env) ==
    IF extract_shortcode(url) = None THEN None
    ELSE IF env = "media"
    THEN [success |-> TRUE, filepath |-> DownloadedFile, platform |-> "instagram",
          method |-> "scraping"]
    ELSE None

\* InstagramDownloader.download of enhanced_bot.py: instaloader, then scraping
Enh_methods == <<"download_with_instaloader", "download_with_scraping">>

Enh_call(method, url, env) ==
    CASE method = "download_with_instaloader" -> Enh_download_with_instaloader(url, env)
      [] method = "download_with_scraping" -> Enh_download_with_scraping(url, env)

\* one strategy of InstagramDownloader.download (enhanced_bot.py 409-424)
Enh_try_next(r, env) ==
    LET method   == r.chain[Len(r.calls) + 1]
        returned == Enh_call(method, r.url, env)
        calls    == Append(r.calls, [method |-> method, env |-> env,
                                     returned |-> returned])
    IN  IF returned # None
        THEN [r EXCEPT !.calls = calls, !.phase = "returned", !.result = returned]
        ELSE IF Len(calls) = Len(r.chain)
        THEN [r EXCEPT !.calls = calls, !.phase = "returned",
                       !.result = [success |-> FALSE, error |-> Enh_PrivateOrDeleted]]
        ELSE [r EXCEPT !.calls = calls]

\* download_media for the other platforms (lines 628-685): extract_info with
\* ignoreerrors yields None on an extraction error, and `'filesize' in info`
\* then raises TypeError, caught at line 680
download_media(url, env) ==
    IF env = "raises" THEN [success |-> FALSE, error |-> UpstreamErrorText]
    ELSE IF env = "nothing" THEN [success |-> FALSE, error |-> NoneTypeError]
    ELSE IF env = "media"
    THEN [success |-> TRUE, filepath |-> DownloadedFile,
          platform |-> Enh_detect_platform(url).platform]
    ELSE [success |-> FALSE, error |-> NoFileDownloaded]

\* handle_message 1051-1103: the answer to the user
Enh_Shown(result) ==
    IF result.success
    THEN [kind |-> "download_complete", filepath |-> result.filepath]
    ELSE [kind |-> "download_failed", error |-> result.error]

Enh_finish(st, r, result, t) ==
    [state |-> IF result.success
               THEN [record_download(st, r.user, t) EXCEPT !.delivered[r.user] = @ + 1]
               ELSE st,
     reply |-> [op |-> "complete", user |-> r.user,
                outcome |-> IF result.success THEN "delivered" ELSE "download_failed",
                seen |-> 0],
     resolver |-> [r EXCEPT !.phase = "done", !.result = result,
                            !.shown = Enh_Shown(result)]]

\* handle_message 981-1048: the row is rewritten, the URL must be of a
\* supported platform, can_download must admit
Enh_request(st, u, profile, url, t) ==
    LET users1 == add_user(st.users, u, profile, t)
        st1    == [st EXCEPT !.users = users1]
        can    == can_download(users1, st.user_downloads, u, t)
        st2    == [st1 EXCEPT !.user_downloads = can.user_downloads]
        user   == get_user(users1, u)
        r      == [phase |-> "running", user |-> u, user_data |-> None,
                   url |-> url, chain |-> <<>>, calls |-> <<>>,
                   result |-> None, shown |-> None]
        refuse(state, kind) ==
            [state |-> state,
             reply |-> [op |-> "admit", user |-> u, outcome |-> kind],
             resolver |-> [r EXCEPT !.phase = "done", !.shown = [kind |-> kind]]]
    IN  IF Enh_detect_platform(url) = None THEN refuse(st1, "no_supported_urls")
        ELSE IF ~can.allowed /\ user # None /\ ~user.unlimited_access
        THEN refuse(st2, IF user.downloads_used >= free_downloads_limit
                         THEN "limit_exceeded" ELSE "rate_limited")
        ELSE [state |-> st2,
              reply |-> [op |-> "admit", user |-> u, outcome |-> "admitted"],
              resolver |->
                 [r EXCEPT !.chain =
                     IF Enh_detect_platform(url).platform = "instagram"
                     THEN Enh_methods ELSE <<"extract_info">>]]

Enh_invoke(st, r, env, t) ==
    IF r.chain = <<"extract_info">>
    THEN LET result == download_media(r.url, env)
             r1 == [r EXCEPT !.calls = Append(@, [method |-> "extract_info",
                                                  env |-> env,
                                                  returned |-> result])]
         IN  Enh_finish(st, r1, result, t)
    ELSE LET r1 == Enh_try_next(r, env)
         IN  IF r1.phase = "returned" THEN Enh_finish(st, r1, r1.result, t)
             ELSE [state |-> st, reply |-> [op |-> "invoke", user |-> r.user],
                   resolver |-> r1]

\* ------------------------------------------------------------ store failures
\* How the SQLite store behaves during one handler run:
\*   "ok"          every operation succeeds,
\*   "fails"       every operation raises (the file is locked or unreadable),
\*   "read_fails"  the first get_user raises, the operations after it succeed.
\* add_user and get_user catch the exception: add_user writes nothing and
\* get_user returns None, as for a user without a row.
StoreOutcomes == {"ok", "fails", "read_fails"}

\* what get_user returns for every user while the store fails
Unreadable(us) == [u \in DOMAIN us |-> None]

\* DownloadBot.handle_message, lines 247-263: the admission of a message.
\* With user_data = None after the second get_user, user_data['unlimited_access']
\* raises TypeError outside any try block.
main_admission(st, u, profile, t, store) ==
    LET first     == IF store = "ok" THEN get_user(st.users, u) ELSE None
        users1    == IF first # None \/ store = "fails" THEN st.users
                     ELSE add_user(st.users, u, profile, t)
        user_data == IF first # None THEN first
                     ELSE IF store = "fails" THEN None
                     ELSE get_user(users1, u)
    IN  Answer([st EXCEPT !.users = users1],
               [op |-> "admission", user |-> u, store |-> store,
                known |-> st.users[u] # None,
                outcome |->
                   IF user_data = None THEN "raised"
                   ELSE IF ~user_data.unlimited_access
                           /\ user_data.downloads_used >= FREE_DOWNLOADS_LIMIT
                   THEN "limit_exceeded"
                   ELSE "admitted"])

\* EnhancedTelegramBot.handle_message, lines 981-1034, for a message with a
\* supported URL: add_user, can_download and, when it denies, get_user again.
Enh_admission(st, u, profile, t, store) ==
    LET users1 == IF store = "fails" THEN st.users
                  ELSE add_user(st.users, u, profile, t)
        can    == can_download(IF store = "ok" THEN users1 ELSE Unreadable(users1),
                               st.user_downloads, u, t)
        user   == get_user(IF store = "fails" THEN Unreadable(users1) ELSE users1, u)
    IN  Answer([st EXCEPT !.users = users1, !.user_downloads = can.user_downloads],
               [op |-> "admission", user |-> u, store |-> store,
                known |-> st.users[u] # None,
                outcome |->
                   IF can.allowed THEN "admitted"
                   ELSE IF user # None /\ ~user.unlimited_access
                   THEN IF user.downloads_used >= free_downloads_limit
                        THEN "limit_exceeded" ELSE "rate_limited"
                   ELSE "admitted"])

\* ------------------------------------------------------------ files
\* The files of the enhanced bot.  A file is known by its size in bytes; each
\* request names its files with a fresh uuid prefix, so the directory is a bag.
MaxFileBytes == 50 * 1024 * 1024

FileSizes == {1, MaxFileBytes, MaxFileBytes + 1}

File(size) == [size |-> size]

\* the files written by one run of yt-dlp, in the order os.listdir yields them
FileLists ==
    {<<>>} \cup {<<File(a)>> : a \in FileSizes}
           \cup {<<File(a), File(b)>> : a \in FileSizes, b \in FileSizes}

\* What yt-dlp does for a URL of another platform:
\*   "announced_too_large"  extract_info reports a filesize above the ceiling,
\*   "downloads"            ydl.download returns having written `files` (none
\*                          when the download failed quietly, several for a
\*                          post or a playlist with several videos),
\*   "raises"               an exception leaves yt-dlp after `files` (whole or
\*                          partial) were written.
YtDlpRuns ==
    {[kind |-> "announced_too_large", files |-> <<>>]}
    \cup [kind : {"downloads", "raises"}, files : FileLists]

\* What the two Instagram strategies do: the file fetched and written, or None
\* when the strategy finds nothing or raises before it opens its file.
InstagramRuns ==
    [instaloader : {None} \cup {File(a) : a \in FileSizes},
     scraping : {None} \cup {File(a) : a \in FileSizes}]

RECURSIVE BagOf(_)
BagOf(files) ==
    IF files = <<>> THEN EmptyBag
    ELSE SetToBag({Head(files)}) (+) BagOf(Tail(files))

\* download_media writing files: the result, and the files the call leaves in
\* the directory when it returns
download_media_files(url, env) ==
    IF Enh_detect_platform(url).platform = "instagram"
    THEN IF extract_shortcode(url) = None
         THEN [result |-> [success |-> FALSE, error |-> Enh_PrivateOrDeleted],
               left |-> EmptyBag]
         ELSE IF env.instaloader # None
         THEN [result |-> [success |-> TRUE, filepath |-> env.instaloader,
                           method |-> "instaloader"],
               left |-> SetToBag({env.instaloader})]
         ELSE IF env.scraping # None
         THEN [result |-> [success |-> TRUE, filepath |-> env.scraping,
                           method |-> "scraping"],
               left |-> SetToBag({env.scraping})]
         ELSE [result |-> [success |-> FALSE, error |-> Enh_PrivateOrDeleted],
               left |-> EmptyBag]
    ELSE IF env.kind = "announced_too_large"
    THEN [result |-> [success |-> FALSE, error |-> "File too large (max 50MB)"],
          left |-> EmptyBag]
    ELSE IF env.kind = "raises"
    THEN [result |-> [success |-> FALSE, error |-> UpstreamErrorText],
          left |-> BagOf(env.files)]
    ELSE IF env.files = <<>>
    THEN [result |-> [success |-> FALSE, error |-> NoFileDownloaded],
          left |-> EmptyBag]
    ELSE IF Head(env.files).size > MaxFileBytes
    THEN [result |-> [success |-> FALSE, error |-> "Downloaded file too large"],
          left |-> BagOf(Tail(env.files))]
    ELSE [result |-> [success |-> TRUE, filepath |-> Head(env.files),
                      method |-> "yt-dlp"],
          left |-> BagOf(env.files)]

\* EnhancedTelegramBot.handle_message for a message with a supported URL, with
\* its files: admission, download_media, and on success record_download, the
\* upload of the file and os.remove of it.
Enh_download(st, dir, u, profile, url, env, t) ==
    LET adm == Enh_admission(st, u, profile, t, "ok")
        got == download_media_files(url, env)
    IN  IF adm.reply.outcome # "admitted"
        THEN [state |-> adm.state, dir |-> dir,
              reply |-> [op |-> "download", user |-> u, outcome |-> adm.reply.outcome,
                         url |-> url, env |-> env]]
        ELSE IF got.result.success
        THEN [state |-> [record_download(adm.state, u, t) EXCEPT !.delivered[u] = @ + 1],
              dir |-> (dir (+) got.left) (-) SetToBag({got.result.filepath}),
              reply |-> [op |-> "download", user |-> u, outcome |-> "delivered",
                         url |-> url, env |-> env, sent |-> got.result.filepath,
                         method |-> got.result.method]]
        ELSE [state |-> adm.state, dir |-> dir (+) got.left,
              reply |-> [op |-> "download", user |-> u, outcome |-> "download_failed",
                         url |-> url, env |-> env, error |-> got.result.error]]

\* ------------------------------------------------------------ polling loop
\* EnhancedTelegramBot.run (enhanced_bot.py 1105-1127) against Telegram's
\* getUpdates.  Telegram numbers the updates of a bot 1, 2, 3, ... as they
\* arrive, keeps them until a getUpdates call with a larger offset confirms
\* them, and answers a call with the kept updates in the order of their ids.
\* An update is its update_id, its sender and its kind.  message: a text
\* message with a supported URL; no_from: a message without the optional field
\* `from`, for which handle_message raises KeyError at line 935; other: an
\* update without the key 'message'.
Ids(updates) == {updates[i].update_id : i \in 1..Len(updates)}

\* __init__ 432: last_update_id = 0; nothing received, nothing handled
IdlePoller ==
    [last_update_id |-> 0, batch |-> <<>>, queue |-> <<>>, sent |-> 0,
     handled |-> [i \in 1..MaxUpdates |-> 0], abandoned |-> {}, running |-> TRUE]

\* a user has sent something: Telegram stores it under the next update_id
arrive(p, kind, u) ==
    [p EXCEPT !.sent = @ + 1,
              !.queue = Append(@, [update_id |-> p.sent + 1, kind |-> kind,
                                   user |-> u])]

\* get_updates 459-467: getUpdates with offset = last_update_id + 1; None when
\* the request raises
get_updates(p, answers) ==
    IF ~answers THEN None
    ELSE [ok |-> TRUE,
          result |-> SelectSeq(p.queue,
                               LAMBDA x : x.update_id >= p.last_update_id + 1)]

\* run 1111-1112: a poll; the updates below the offset are confirmed and gone
poll(p, answers) ==
    LET updates == get_updates(p, answers)
    IN  IF updates = None THEN p
        ELSE [p EXCEPT !.batch = updates.result, !.queue = updates.result]

\* the loop body with the update acknowledged only after it has been handled
run_update_AcksAfterHandling(p, raised) ==
    LET update == Head(p.batch)
    IN  [p EXCEPT !.last_update_id = IF raised THEN @ ELSE update.update_id,
                  !.handled[update.update_id] = @ + 1,
                  !.batch = IF raised THEN <<>> ELSE Tail(@),
                  !.abandoned = IF raised THEN @ \cup Ids(Tail(p.batch)) ELSE @]

\* run 1114-1118 and 1125-1127: the body of the for loop for the first update
\* of the batch.  last_update_id is assigned before the update is handled; an
\* exception leaves the for loop, is logged by the except branch, and the
\* while loop goes on with a new poll.
run_update(p, raised) ==
    LET update == Head(p.batch)
    IN  [p EXCEPT !.last_update_id = update.update_id,
                  !.handled[update.update_id] = @ + 1,
                  !.batch = IF raised THEN <<>> ELSE Tail(@),
                  !.abandoned = IF raised THEN @ \cup Ids(Tail(p.batch)) ELSE @]

\* ------------------------------------------------------------ actions
State == [users |-> users, referrals |-> referrals,
          channel_follows |-> channel_follows, downloads |-> downloads,
          user_downloads |-> user_downloads, delivered |-> delivered]

Stored(st) ==
    /\ users = st.users
    /\ referrals = st.referrals
    /\ channel_follows = st.channel_follows
    /\ downloads = st.downloads
    /\ user_downloads = st.user_downloads
    /\ delivered = st.delivered

\* the handler's answer becomes the next state; the clock and the bot stay
Step(answer) ==
    /\ users' = answer.state.users
    /\ referrals' = answer.state.referrals
    /\ channel_follows' = answer.state.channel_follows
    /\ downloads' = answer.state.downloads
    /\ user_downloads' = answer.state.user_downloads
    /\ delivered' = answer.state.delivered
    /\ reply' = answer.reply
    /\ UNCHANGED <<bot, now, inflight, resolver, download_dir, poller>>

MainStart(u, profile, args) ==
    bot = "main" /\ Step(start_command(State, u, profile, args, now))

MainVerify(u, live) ==
    bot = "main" /\ Step(verify_command(State, u, live, now))

MainMessage(u, profile, text, result) ==
    bot = "main" /\ Step(handle_message(State, u, profile, text, result, now))

EnhStart(u, profile, args) ==
    bot = "enhanced" /\ Step(handle_start_command(State, u, profile, args, now))

EnhVerify(u, live) ==
    bot = "enhanced" /\ Step(handle_verify_command(State, u, live, now))

EnhMessage(u, profile, text, result) ==
    bot = "enhanced" /\ Step(Enh_handle_message(State, u, profile, text, result, now))

\* ------------------------------------------------------------ inputs
Profiles == {[username |-> "alice", first_name |-> "Alice"],
             [username |-> "bob", first_name |-> "Bob"]}

Profile1 == [username |-> "alice", first_name |-> "Alice"]

\* ChatMember.status values of the Bot API ("kicked" is a banned user)
ChatMemberStatus ==
    {"creator", "administrator", "member", "restricted", "left", "kicked"}

MainLive == ChatMemberStatus \cup {"error"}

EnhLive == ChatMemberStatus \cup {"error", "not_ok"}

RECURSIVE Sum(_, _)
Sum(f, S) == IF S = {} THEN 0
             ELSE LET x == CHOOSE y \in S : TRUE IN f[x] + Sum(f, S \ {x})

FailedRows == BagCardinality(Matching(downloads, LAMBDA r : ~r.success))

\* a run makes at most `cap` deliveries to the users U that act in it, and at
\* most MaxFailures failed attempts
WithinBounds(result, U, cap) ==
    /\ result = "success" => Sum(delivered, U) < cap
    /\ result # "success" => FailedRows < MaxFailures

\* the coroutines that can be in flight at once
Workers == {1, 2}

\* no coroutine is suspended, no request is being resolved and the download
\* directory, created at start, is empty
Quiet ==
    /\ inflight = [w \in Workers |-> [phase |-> "idle"]]
    /\ resolver = [phase |-> "idle"]
    /\ download_dir = EmptyBag
    /\ poller = IdlePoller

\* the database file of a first start: every table empty
EmptyState ==
    [users |-> [u \in Users |-> None], referrals |-> EmptyBag,
     channel_follows |-> [u \in Users |-> None], downloads |-> EmptyBag,
     user_downloads |-> [u \in Users |-> <<>>],
     delivered |-> [u \in Users |-> 0]]

Init ==
    /\ bot \in {"main", "enhanced"}
    /\ Stored(EmptyState)
    /\ now = 0
    /\ reply = [op |-> "none"]
    /\ Quiet

\* ------------------------------------------------------------ Spec
\* The referral graph: two users start the bot with every kind of start
\* parameter (none, each other's link, their own link, the link of user 9 who
\* never used the bot, a non-numeric suffix, a missing prefix) and download.
SpecUsers == {1, 2}

StartParams ==
    {<<>>, get_referral_link(1), get_referral_link(2), get_referral_link(9),
     <<"r", "e", "f", "_", "x">>, <<"1">>}

Next ==
    \E u \in SpecUsers :
        \/ \E a \in StartParams : MainStart(u, Profile1, a)
        \/ \E r \in {"success", "failure"} :
              /\ WithinBounds(r, SpecUsers, MaxReferralDownloads)
              /\ MainMessage(u, Profile1, "url", r)
        \/ \E a \in StartParams : EnhStart(u, Profile1, a)
        \/ \E r \in {"success", "failure"} :
              /\ WithinBounds(r, SpecUsers, MaxReferralDownloads)
              /\ EnhMessage(u, Profile1, "url", r)

Spec == Init /\ [][Next]_vars

\* ------------------------------------------------------------ SpecQuota
\* The quota axis: one user sends every command and every kind of message.
QuotaUsers == {1}

NextQuota ==
    \E u \in QuotaUsers :
        \/ \E p \in Profiles : MainStart(u, p, <<>>)
        \/ \E live \in {"member", "left", "error"} : MainVerify(u, live)
        \/ \E p \in Profiles, text \in {"no_url", "url"},
              r \in {"success", "failure", "raises", "success_raises"} :
              /\ WithinBounds(r, QuotaUsers, MaxDownloads)
              /\ MainMessage(u, p, text, r)
        \/ \E p \in Profiles : EnhStart(u, p, <<>>)
        \/ \E live \in {"member", "left", "error"} : EnhVerify(u, live)
        \/ \E p \in Profiles, text \in {"no_url", "url"},
              r \in {"success", "failure"} :
              /\ WithinBounds(r, QuotaUsers, MaxDownloads)
              /\ EnhMessage(u, p, text, r)

SpecQuota == Init /\ [][NextQuota]_vars

\* ------------------------------------------------------------ SpecUnlock
\* The unlock axis.  The bot starts on the database an earlier session left:
\* users 3 .. REFERRALS_REQUIRED + 1 each started with the link of user 1 and
\* downloaded once.  In this session users 1 and 2 act.
Candidate == 1

UnlockUsers == {1, 2}

EarlierFriends == Users \ UnlockUsers

RECURSIVE Invited(_, _, _)
Invited(b, st, friends) ==
    IF friends = {} THEN st
    ELSE LET f == CHOOSE x \in friends : TRUE
             link == get_referral_link(Candidate)
             started ==
                 IF b = "main" THEN start_command(st, f, Profile1, link, 0).state
                 ELSE handle_start_command(st, f, Profile1, link, 0).state
             used ==
                 IF b = "main"
                 THEN handle_message(started, f, Profile1, "url", "success", 0).state
                 ELSE Enh_handle_message(started, f, Profile1, "url", "success", 0).state
         IN  Invited(b, used, friends \ {f})

InitUnlock ==
    /\ bot \in {"main", "enhanced"}
    /\ Stored(Invited(bot, EmptyState, EarlierFriends))
    /\ now = 0
    /\ reply = [op |-> "none"]
    /\ Quiet

NextUnlock ==
    \E u \in UnlockUsers :
        \/ \E a \in {<<>>, get_referral_link(Candidate)} : MainStart(u, Profile1, a)
        \/ \E live \in MainLive : MainVerify(u, live)
        \/ /\ WithinBounds("success", UnlockUsers, MaxUnlockDownloads)
           /\ MainMessage(u, Profile1, "url", "success")
        \/ \E a \in {<<>>, get_referral_link(Candidate)} : EnhStart(u, Profile1, a)
        \/ \E live \in EnhLive : EnhVerify(u, live)
        \/ /\ WithinBounds("success", UnlockUsers, MaxUnlockDownloads)
           /\ EnhMessage(u, Profile1, "url", "success")

SpecUnlock == InitUnlock /\ [][NextUnlock]_vars

\* ------------------------------------------------------------ SpecCanDownload
\* EnhancedTelegramBot.can_download applied to every stored row and every rate
\* table: the row of user 1 is absent or holds any counter and flag the schema
\* allows, the table holds timestamps recorded at or before the current time.
Times == <<0, WindowSeconds \div 2, WindowSeconds>>

Repeat(x, n) == [i \in 1..n |-> x]

\* n[i] downloads recorded at Times[i], in the order they were appended
Stamps(n) == Repeat(Times[1], n[1]) \o Repeat(Times[2], n[2])
                \o Repeat(Times[3], n[3])

StoredRows ==
    {None} \cup
    [username : {Profile1.username}, first_name : {Profile1.first_name},
     downloads_used : 0..MaxUsed, unlimited_access : BOOLEAN,
     joined_date : {0}, last_activity : {0}]

InitCanDownload ==
    /\ bot = "enhanced"
    /\ \E row \in StoredRows : users = [EmptyState.users EXCEPT ![1] = row]
    /\ referrals = EmptyBag
    /\ channel_follows = EmptyState.channel_follows
    /\ downloads = EmptyBag
    /\ \E k \in 1..3 :
          /\ now = Times[k]
          /\ \E n \in [1..3 -> 0..MaxStamps] :
                /\ n[1] + n[2] + n[3] <= MaxStamps
                /\ \A i \in 1..3 : i > k => n[i] = 0
                /\ user_downloads = [EmptyState.user_downloads EXCEPT ![1] = Stamps(n)]
    /\ delivered = EmptyState.delivered
    /\ reply = [op |-> "none"]
    /\ Quiet

CanDownloadCall(u) ==
    /\ bot = "enhanced"
    /\ LET can == can_download(users, user_downloads, u, now)
       IN  /\ user_downloads' = can.user_downloads
           /\ reply' = [op |-> "can_download", user |-> u, allowed |-> can.allowed,
                        stamps |-> Len(user_downloads[u])]
    /\ UNCHANGED <<bot, users, referrals, channel_follows, downloads, now,
                   delivered, inflight, resolver, download_dir, poller>>

NextCanDownload == \E u \in {1, 2} : CanDownloadCall(u)

SpecCanDownload == InitCanDownload /\ [][NextCanDownload]_vars

\* ------------------------------------------------------------ SpecConcurrent
\* DownloadBot.handle_message as coroutines: a handler runs from one await to
\* the next without interruption, and while it waits for the download another
\* handler of the same user may be admitted or may complete.
Admit(w, u, profile, text) ==
    /\ bot = "main"
    /\ inflight[w].phase = "idle"
    /\ LET a == admit(State, u, profile, text, now)
       IN  /\ users' = a.state.users
           /\ reply' = [op |-> "admit", user |-> u, outcome |-> a.outcome]
           /\ inflight' =
                 IF a.outcome = "admitted"
                 THEN [inflight EXCEPT ![w] = [phase |-> "downloading", user |-> u,
                                               user_data |-> a.user_data]]
                 ELSE inflight
    /\ UNCHANGED <<bot, referrals, channel_follows, downloads, user_downloads,
                   now, delivered, resolver, download_dir, poller>>

Complete(w, result) ==
    /\ bot = "main"
    /\ inflight[w].phase = "downloading"
    /\ LET answer == complete(State, inflight[w].user, inflight[w].user_data,
                              result, now)
       IN  /\ users' = answer.state.users
           /\ referrals' = answer.state.referrals
           /\ downloads' = answer.state.downloads
           /\ delivered' = answer.state.delivered
           /\ reply' = answer.reply
    /\ inflight' = [inflight EXCEPT ![w] = [phase |-> "idle"]]
    /\ UNCHANGED <<bot, channel_follows, user_downloads, now, resolver,
                   download_dir, poller>>

ConcurrentUsers == {1, 2}

InitConcurrent ==
    /\ bot = "main"
    /\ Stored(EmptyState)
    /\ now = 0
    /\ reply = [op |-> "none"]
    /\ Quiet

NextConcurrent ==
    \E w \in Workers :
        \/ \E u \in ConcurrentUsers, text \in {"no_url", "url"} :
              Admit(w, u, Profile1, text)
        \/ \E r \in {"success", "failure"} :
              /\ WithinBounds(r, ConcurrentUsers, MaxConcurrentDownloads)
              /\ Complete(w, r)

SpecConcurrent == InitConcurrent /\ [][NextConcurrent]_vars

\* ------------------------------------------------------------ SpecResolver
\* One download request at a time, followed through its awaited download
\* calls: the handler admits the request, the strategies run one by one against
\* services that answer in every way, the handler records and answers.
ResolverUrls ==
    {Url(<<"i", "n", "s", "t", "a", "g", "r", "a", "m", ".", "c", "o", "m">>, <<"/", "p", "/", "a">>),
     Url(<<"w", "w", "w", ".", "i", "n", "s", "t", "a", "g", "r", "a", "m", ".", "c", "o", "m">>, <<"/", "u">>),
     Url(<<"y", "o", "u", "t", "u", ".", "b", "e">>, <<"/", "a">>),
     Url(<<"b", "o", "x", ".", "c", "o", "m">>, <<"/", "a">>),
     Url(<<"e", ".", "o", "r", "g">>, <<"/", "a">>),
     Url(<<"e", ".", "o", "r", "g">>, <<"/", "i", "n", "s", "t", "a", "g", "r", "a", "m", ".", "c", "o", "m", "/", "p", "/", "a">>)}

ResolverUser == 1

\* the step x keeps the run within its bounds
Bounded(x, cap) ==
    /\ x.state.delivered # delivered => Sum(delivered, Users) < cap
    /\ (x.state.downloads # downloads /\ x.state.delivered = delivered)
          => FailedRows < MaxFailures

Apply(x) ==
    /\ users' = x.state.users
    /\ referrals' = x.state.referrals
    /\ channel_follows' = x.state.channel_follows
    /\ downloads' = x.state.downloads
    /\ user_downloads' = x.state.user_downloads
    /\ delivered' = x.state.delivered
    /\ reply' = x.reply
    /\ resolver' = x.resolver
    /\ UNCHANGED <<bot, now, inflight, download_dir, poller>>

MainRequest(u, url) ==
    /\ bot = "main"
    /\ resolver.phase \in {"idle", "done"}
    /\ Bounded(main_request(State, u, Profile1, url, now), MaxResolverDownloads)
    /\ Apply(main_request(State, u, Profile1, url, now))

MainInvoke(env) ==
    /\ bot = "main"
    /\ resolver.phase = "running"
    /\ Bounded(main_invoke(State, resolver, env, now), MaxResolverDownloads)
    /\ Apply(main_invoke(State, resolver, env, now))

EnhRequest(u, url) ==
    /\ bot = "enhanced"
    /\ resolver.phase \in {"idle", "done"}
    /\ Apply(Enh_request(State, u, Profile1, url, now))

EnhInvoke(env) ==
    /\ bot = "enhanced"
    /\ resolver.phase = "running"
    /\ Bounded(Enh_invoke(State, resolver, env, now), MaxResolverDownloads)
    /\ Apply(Enh_invoke(State, resolver, env, now))

NextResolver ==
    \/ \E url \in ResolverUrls : MainRequest(ResolverUser, url)
    \/ \E env \in Outcomes : MainInvoke(env)
    \/ \E url \in ResolverUrls : EnhRequest(ResolverUser, url)
    \/ \E env \in Outcomes : EnhInvoke(env)

SpecResolver == Init /\ [][NextResolver]_vars

\* ------------------------------------------------------------ SpecRateTable
\* The rate table over time: can_download and record_download are called for
\* the stored rows and tables of SpecCanDownload while the clock moves on.
RecordDownloadCall(u) ==
    /\ bot = "enhanced"
    /\ Len(user_downloads[u]) < MaxStamps
    /\ users[u] # None => users[u].downloads_used < MaxUsed
    /\ LET st == record_download(State, u, now)
       IN  /\ users' = st.users
           /\ referrals' = st.referrals
           /\ user_downloads' = st.user_downloads
           /\ reply' = [op |-> "record_download", user |-> u]
    /\ UNCHANGED <<bot, channel_follows, downloads, now, delivered, inflight,
                   resolver, download_dir, poller>>

\* time.time() has moved on to the next of Times
Tick ==
    /\ \E k \in 1..(Len(Times) - 1) : now = Times[k] /\ now' = Times[k + 1]
    /\ UNCHANGED <<bot, users, referrals, channel_follows, downloads,
                   user_downloads, delivered, reply, inflight, resolver,
                   download_dir, poller>>

NextRateTable ==
    \/ \E u \in {1, 2} : CanDownloadCall(u)
    \/ RecordDownloadCall(1)
    \/ Tick

SpecRateTable == InitCanDownload /\ [][NextRateTable]_vars

\* ------------------------------------------------------------ SpecStoreFailure
\* One user downloads and sends further messages while the store works, fails,
\* or fails for one read.
MainAdmission(u, profile, store) ==
    bot = "main" /\ Step(main_admission(State, u, profile, now, store))

EnhAdmission(u, profile, store) ==
    bot = "enhanced" /\ Step(Enh_admission(State, u, profile, now, store))

StoreUsers == {1}

NextStoreFailure ==
    \E u \in StoreUsers :
        \/ \E p \in Profiles, store \in StoreOutcomes : MainAdmission(u, p, store)
        \/ \E p \in Profiles :
              /\ WithinBounds("success", StoreUsers, MaxStoreDownloads)
              /\ MainMessage(u, p, "url", "success")
        \/ \E p \in Profiles, store \in StoreOutcomes : EnhAdmission(u, p, store)
        \/ \E p \in Profiles :
              /\ WithinBounds("success", StoreUsers, MaxStoreDownloads)
              /\ EnhMessage(u, p, "url", "success")

SpecStoreFailure == Init /\ [][NextStoreFailure]_vars

\* ------------------------------------------------------------ SpecFiles
\* The download directory: one user of the enhanced bot sends an Instagram
\* post and a video of another platform, and the services answer with files of
\* every size, with several files, with none, or with an exception.
FileUrls ==
    {Url(<<"i", "n", "s", "t", "a", "g", "r", "a", "m", ".", "c", "o", "m">>, <<"/", "p", "/", "a">>),
     Url(<<"y", "o", "u", "t", "u", ".", "b", "e">>, <<"/", "a">>)}

EnhDownload(u, url, env) ==
    /\ bot = "enhanced"
    /\ LET x == Enh_download(State, download_dir, u, Profile1, url, env, now)
       IN  /\ x.state.delivered # delivered => Sum(delivered, Users) < MaxFileDownloads
           /\ BagCardinality(x.dir) <= MaxLeftFiles
           /\ users' = x.state.users
           /\ referrals' = x.state.referrals
           /\ user_downloads' = x.state.user_downloads
           /\ delivered' = x.state.delivered
           /\ download_dir' = x.dir
           /\ reply' = x.reply
    /\ UNCHANGED <<bot, channel_follows, downloads, now, inflight, resolver,
                   poller>>

InitFiles ==
    /\ bot = "enhanced"
    /\ Stored(EmptyState)
    /\ now = 0
    /\ reply = [op |-> "none"]
    /\ Quiet

NextFiles ==
    \E url \in FileUrls :
        \E env \in IF Enh_detect_platform(url).platform = "instagram"
                   THEN InstagramRuns ELSE YtDlpRuns :
            EnhDownload(1, url, env)

SpecFiles == InitFiles /\ [][NextFiles]_vars

\* ------------------------------------------------------------ SpecPolling
\* The enhanced bot's loop: a user sends messages and other updates while the
\* loop polls (getUpdates answering or failing), handles the batch update by
\* update with downloads that succeed or fail, and may be interrupted.
PollingUser == 1

Arrive(kind, u) ==
    /\ bot = "enhanced"
    /\ poller.sent < MaxUpdates
    /\ poller' = arrive(poller, kind, u)
    /\ UNCHANGED <<bot, users, referrals, channel_follows, downloads,
                   user_downloads, now, delivered, reply, inflight, resolver,
                   download_dir>>

Poll(answers) ==
    /\ bot = "enhanced"
    /\ poller.running
    /\ poller.batch = <<>>
    /\ poller' = poll(poller, answers)
    /\ reply' = [op |-> "get_updates", ok |-> answers,
                 offset |-> poller.last_update_id + 1]
    /\ UNCHANGED <<bot, users, referrals, channel_follows, downloads,
                   user_downloads, now, delivered, inflight, resolver,
                   download_dir>>

HandleUpdate(result) ==
    /\ bot = "enhanced"
    /\ poller.running
    /\ poller.batch # <<>>
    /\ LET update == Head(poller.batch)
           answer ==
               IF update.kind = "message"
               THEN Enh_handle_message(State, update.user, Profile1, "url",
                                       result, now)
               ELSE IF update.kind = "no_from"
               THEN Answer(State, [op |-> "message", outcome |-> "raised"])
               ELSE Answer(State, [op |-> "no_message"])
       IN  /\ users' = answer.state.users
           /\ referrals' = answer.state.referrals
           /\ channel_follows' = answer.state.channel_follows
           /\ downloads' = answer.state.downloads
           /\ user_downloads' = answer.state.user_downloads
           /\ delivered' = answer.state.delivered
           /\ reply' = answer.reply
           /\ poller' = run_update(poller, update.kind = "no_from")
    /\ UNCHANGED <<bot, now, inflight, resolver, download_dir>>

\* run 1122-1124: Ctrl-C ends the loop
KeyboardInterrupt ==
    /\ bot = "enhanced"
    /\ poller.running
    /\ poller' = [poller EXCEPT !.running = FALSE, !.batch = <<>>]
    /\ reply' = [op |-> "stopped"]
    /\ UNCHANGED <<bot, users, referrals, channel_follows, downloads,
                   user_downloads, now, delivered, inflight, resolver,
                   download_dir>>

NextPolling ==
    \/ \E kind \in {"message", "no_from", "other"} : Arrive(kind, PollingUser)
    \/ \E answers \in BOOLEAN : Poll(answers)
    \/ \E result \in {"success", "failure"} : HandleUpdate(result)
    \/ KeyboardInterrupt

SpecPolling == InitFiles /\ [][NextPolling]_vars

\* ============================================================ claims
HasUnlimited(us, u) == us[u] # None /\ us[u].unlimited_access

EdgeCount(refs, a, b) ==
    BagCardinality(Matching(refs,
        LAMBDA r : r.referrer_id = a /\ r.referred_id = b))

Following == {"member", "administrator", "creator"}

\* C1: for every user, unlimited_access never goes from true back to false,
\* whatever handler runs.
UnlimitedAccessIsNeverRevoked ==
    [][\A u \in Users : HasUnlimited(users, u) => HasUnlimited(users', u)]_vars

\* C2: downloads_used never decreases; add_user for an existing user keeps
\* downloads_used, unlimited_access and joined_date, and is idempotent.
UpsertKeepsCounters ==
    [][/\ \A u \in Users :
            users[u] # None =>
                /\ users'[u] # None
                /\ users'[u].downloads_used >= users[u].downloads_used
       /\ \A u \in Users, p \in Profiles :
            users[u] # None =>
                LET once  == add_user(users, u, p, now)
                    twice == add_user(once, u, p, now)
                IN  /\ once[u].downloads_used = users[u].downloads_used
                    /\ once[u].unlimited_access = users[u].unlimited_access
                    /\ once[u].joined_date = users[u].joined_date
                    /\ twice = once]_vars

\* C3: a user without unlimited access receives at most FREE_DOWNLOADS_LIMIT
\* successful downloads (in SpecQuota nobody ever obtains unlimited access).
FreeUserStaysWithinQuota ==
    \A u \in Users :
        ~HasUnlimited(users, u) => delivered[u] <= FREE_DOWNLOADS_LIMIT

\* C4: a /verify call grants (sets unlimited_access, reports access_granted)
\* if and only if the verified-referral count is met, the membership check of
\* the call returned true and the user was not yet unlimited; otherwise it
\* reports access_granted = false and leaves the users table alone.
VerifyGrantsExactlyWhenDue ==
    [][\A u \in Users, live \in EnhLive :
          (MainVerify(u, live) \/ EnhVerify(u, live)) =>
              LET met      == get_referral_count(referrals, u) >= REFERRALS_REQUIRED
                  followed == reply'.status.channel_followed
                  granted  == reply'.status.access_granted
              IN  IF met /\ followed /\ ~HasUnlimited(users, u)
                  THEN granted /\ HasUnlimited(users', u)
                  ELSE ~granted /\ users' = users]_vars

\* C5: a /verify call of a user who has unlimited access reports
\* already_unlimited = true and leaves the access in place.
UnlimitedUserIsToldSo ==
    [][\A u \in Users, live \in EnhLive :
          (HasUnlimited(users, u) /\ (MainVerify(u, live) \/ EnhVerify(u, live))) =>
              reply'.status.already_unlimited /\ HasUnlimited(users', u)]_vars

\* C6: when the membership request fails ("error", or an answer that is not
\* ok), the call reports channel_followed = false, grants nothing and leaves
\* the users table and the cached follow flag alone.
MembershipErrorFailsClosed ==
    [][\A u \in Users, live \in {"error", "not_ok"} :
          (MainVerify(u, live) \/ EnhVerify(u, live)) =>
              /\ ~reply'.status.channel_followed
              /\ ~reply'.status.access_granted
              /\ reply'.text # "congratulations"
              /\ users' = users
              /\ channel_follows' = channel_follows]_vars

\* C6 witness: the request failed for a user who is not unlimited, has the
\* referrals and a cached follow flag that is true; nothing was granted.
MembershipErrorWitness ==
    /\ reply.op = "verify"
    /\ reply.live = "error"
    /\ reply.status.referrals_met
    /\ ~reply.status.access_granted
    /\ users[reply.user] # None
    /\ ~users[reply.user].unlimited_access
    /\ is_channel_followed(channel_follows, reply.user)

\* C7 as claimed: member, administrator, creator, left and banned ("kicked")
\* all count as following.
LeftAndBannedCountAsFollowing ==
    (reply.op = "verify" /\ reply.live \in Following \cup {"left", "kicked"})
        => reply.status.channel_followed

\* C7 amended: a status counts as following exactly when it is member,
\* administrator or creator; the cached flag is set to the same answer.
OnlyMembersCountAsFollowing ==
    (reply.op = "verify" /\ reply.live \in ChatMemberStatus) =>
        /\ reply.status.channel_followed <=> reply.live \in Following
        /\ is_channel_followed(channel_follows, reply.user)
              <=> reply.live \in Following

\* C7 witness: a banned user ran /verify and was reported as not following
BannedUserWitness ==
    /\ reply.op = "verify"
    /\ reply.live = "kicked"
    /\ ~reply.status.channel_followed
    /\ ~is_channel_followed(channel_follows, reply.user)

\* C8: can_download admits an unknown user and an unlimited user, and denies a
\* known free user whose downloads_used reached the limit, whatever the rate
\* table holds.
QuotaDecidesBeforeWindow ==
    reply.op = "can_download" =>
        LET user == get_user(users, reply.user)
        IN  /\ user = None => reply.allowed
            /\ (user # None /\ user.unlimited_access) => reply.allowed
            /\ (user # None /\ ~user.unlimited_access
                  /\ user.downloads_used >= free_downloads_limit) => ~reply.allowed

\* C8 witness: a free user at the limit was denied although the rate table
\* held no timestamp at all
QuotaDeniesWithEmptyWindow ==
    /\ reply.op = "can_download"
    /\ users[reply.user] # None
    /\ ~users[reply.user].unlimited_access
    /\ users[reply.user].downloads_used >= free_downloads_limit
    /\ reply.stamps = 0
    /\ ~reply.allowed

\* C9: process_referral(a, a) returns false and adds no row, and no row of the
\* referrals table ever has referrer_id = referred_id.
NoSelfReferral ==
    /\ \A r \in BagToSet(referrals) : r.referrer_id # r.referred_id
    /\ \A a \in Users :
          process_referral(referrals, users, a, a)
              = [referrals |-> referrals, success |-> FALSE]

\* C9 witness: a user started the bot with the user's own referral link
SelfReferralWitness ==
    /\ reply.op = "start"
    /\ reply.args = get_referral_link(reply.user)
    /\ reply.notified = 0
    /\ EdgeCount(referrals, reply.user, reply.user) = 0

\* C10: add_referral(a, b) called twice leaves exactly one row for the pair;
\* the second call returns false and changes nothing; a call for a pair that
\* has a row returns false and keeps the row, verified or not; no pair ever
\* has two rows.
EdgeIsCreatedOnce ==
    /\ \A r \in BagToSet(referrals) :
          EdgeCount(referrals, r.referrer_id, r.referred_id) = 1
    /\ \A a \in Users \cup {9}, b \in Users :
          LET first  == add_referral(referrals, a, b)
              second == add_referral(first.referrals, a, b)
          IN  /\ ~second.success
              /\ second.referrals = first.referrals
              /\ EdgeCount(second.referrals, a, b) = 1
              /\ EdgeCount(referrals, a, b) > 0 =>
                    ~first.success /\ first.referrals = referrals

\* C10 witness: user 2 started again with the link of user 1 after the edge
\* was verified; no notification went out and the verified row is still there
DuplicateStartWitness ==
    /\ reply.op = "start"
    /\ reply.user = 2
    /\ reply.args = get_referral_link(1)
    /\ reply.notified = 0
    /\ CopiesIn(ReferralRow(1, 2, TRUE), referrals) = 1
    /\ EdgeCount(referrals, 1, 2) = 1

\* C11: verify_referral(a, b) is idempotent: a second call leaves every row,
\* and so get_referral_count(a), exactly as the first call left them.
VerifyIsIdempotent ==
    \A a \in Users \cup {9}, b \in Users :
        LET once  == verify_referral(referrals, a, b)
            twice == verify_referral(once.referrals, a, b)
        IN  /\ twice.referrals = once.referrals
            /\ get_referral_count(twice.referrals, a)
                  = get_referral_count(once.referrals, a)

\* C11 witness: the first download of user 2 verified the edge (1, 2); a
\* further verify_referral(1, 2) finds the row and changes nothing
VerifiedTwiceWitness ==
    /\ reply.op = "message"
    /\ reply.outcome = "delivered"
    /\ reply.user = 2
    /\ CopiesIn(ReferralRow(1, 2, TRUE), referrals) = 1
    /\ verify_referral(referrals, 1, 2) = [referrals |-> referrals, success |-> TRUE]
    /\ get_referral_count(referrals, 1) = 1

\* C12: add_referral creates the row with verified = false; no step removes a
\* row or sets a verified row back to unverified, so get_referral_count never
\* decreases.
VerifiedNeverReverts ==
    [][/\ \A r \in BagToSet(referrals) :
             /\ EdgeCount(referrals', r.referrer_id, r.referred_id) = 1
             /\ r.verified => CopiesIn(r, referrals') = 1
       /\ \A a \in Users \cup {9} :
             get_referral_count(referrals', a) >= get_referral_count(referrals, a)
       /\ \A a \in Users \cup {9}, b \in Users :
             LET added == add_referral(referrals, a, b)
             IN  added.success =>
                    CopiesIn(ReferralRow(a, b, FALSE), added.referrals) = 1]_vars

\* C12 witness: after the edge (1, 2) was verified, user 2 started the bot
\* again with another referral parameter; the verified row is still there
RestartKeepsVerifiedWitness ==
    /\ reply.op = "start"
    /\ reply.user = 2
    /\ reply.args = get_referral_link(9)
    /\ CopiesIn(ReferralRow(1, 2, TRUE), referrals) = 1
    /\ get_referral_count(referrals, 1) = 1

FirstDownloadVerifiesPending ==
    [][\A u \in Users :
          (/\ delivered[u] = 0
           /\ delivered'[u] = 1
           /\ reply'.op = "message"
           /\ reply'.outcome = "delivered"
           /\ reply'.user = u) =>
              /\ PendingReferrers(referrals', u) = {}
              /\ \A a \in PendingReferrers(referrals, u) :
                    /\ CopiesIn(ReferralRow(a, u, TRUE), referrals') = 1
                    /\ get_referral_count(referrals', a)
                          = get_referral_count(referrals, a) + 1]_vars

\* C14 witness: user 2, referred by user 1 and by the unknown user 9, has made
\* exactly one download and both edges are verified
FirstDownloadWitness ==
    /\ reply.op = "message"
    /\ reply.outcome = "delivered"
    /\ reply.user = 2
    /\ delivered[2] = 1
    /\ CopiesIn(ReferralRow(1, 2, TRUE), referrals) = 1
    /\ CopiesIn(ReferralRow(9, 2, TRUE), referrals) = 1

InChain == resolver.phase # "idle" /\ Len(resolver.chain) > 1

\* the descriptor a successful result hands out
Returned(result) == IF bot = "main" THEN result.data ELSE result

\* C16: for an Instagram URL the strategies run one at a time in the fixed
\* priority order: the calls made so far are the first strategies of the chain,
\* in its order and each once; every call before the last one returned nothing;
\* a success returns what the last call returned, and the aggregate failure
\* comes only after the whole chain returned nothing.
StrategiesInOrder ==
    InChain =>
        /\ resolver.chain = IF bot = "main" THEN methods ELSE Enh_methods
        /\ Len(resolver.calls) <= Len(resolver.chain)
        /\ \A k \in 1..Len(resolver.calls) :
              /\ resolver.calls[k].method = resolver.chain[k]
              /\ k < Len(resolver.calls) => resolver.calls[k].returned = None
        /\ resolver.phase = "running" =>
              /\ Len(resolver.calls) < Len(resolver.chain)
              /\ \A k \in 1..Len(resolver.calls) : resolver.calls[k].returned = None
        /\ (resolver.phase = "done" /\ resolver.shown.kind = "download_complete") =>
              /\ resolver.calls # <<>>
              /\ resolver.calls[Len(resolver.calls)].returned # None
              /\ Returned(resolver.result)
                    = resolver.calls[Len(resolver.calls)].returned
        /\ (resolver.phase = "done" /\ resolver.shown.kind = "download_failed") =>
              /\ Len(resolver.calls) = Len(resolver.chain)
              /\ resolver.calls[Len(resolver.calls)].returned = None

\* the second strategy answered after the first found nothing, and the chain
\* stopped there with three strategies never invoked
SecondStrategyWinsWitness ==
    /\ bot = "main"
    /\ InChain
    /\ resolver.phase = "done"
    /\ Len(resolver.calls) = 2
    /\ resolver.calls[1].returned = None
    /\ resolver.result.success
    /\ resolver.result.data.method = "yt-dlp"

\* C17: an exception raised inside a strategy does not leave the resolver: the
\* strategy counts as having found nothing and, unless it was the last one, the
\* chain goes on.  When the first two strategies raise and the third has the
\* media of a post, the result is a success whose method names the third
\* strategy.
ExceptionsAdvanceTheChain ==
    InChain =>
        /\ \A k \in 1..Len(resolver.calls) :
              resolver.calls[k].env = "raises" =>
                 /\ resolver.calls[k].returned = None
                 /\ (k < Len(resolver.chain) /\ k = Len(resolver.calls))
                       => resolver.phase = "running"
        /\ resolver.phase = "done" => resolver.result # None
        /\ ( /\ bot = "main"
             /\ Len(resolver.calls) >= 3
             /\ resolver.calls[1].env = "raises"
             /\ resolver.calls[2].env = "raises"
             /\ resolver.calls[3].env = "media"
             /\ extract_shortcode(resolver.url) # None )
           => /\ resolver.phase = "done"
              /\ Len(resolver.calls) = 3
              /\ resolver.result.success
              /\ resolver.result.data.method = "instaloader"
              /\ resolver.result.data.url = MediaUrl

TwoRaiseThirdAnswersWitness ==
    /\ bot = "main"
    /\ InChain
    /\ resolver.phase = "done"
    /\ Len(resolver.calls) = 3
    /\ resolver.calls[1].env = "raises"
    /\ resolver.calls[2].env = "raises"
    /\ resolver.result.success
    /\ resolver.result.data.method = "instaloader"
    /\ delivered[resolver.user] = 1

\* C18: when every strategy of the chain of a request has failed, the error
\* shown to the user is the generic private/deleted/login text; no text of a
\* strategy's own error is shown.
FailureShownIsGeneric ==
    ( /\ resolver.phase = "done"
      /\ resolver.calls # <<>>
      /\ resolver.shown.kind = "download_failed" )
    => resolver.shown.error \in {AllMethodsFailed, Enh_PrivateOrDeleted}

\* C19: a URL whose host is not a domain of the platform table of the running
\* bot, nor ends with one, is refused with no download call made for it.
UnknownHostIsRejected ==
    ( /\ resolver.phase # "idle"
      /\ IF bot = "main"
         THEN \A i \in 1..Len(PlatformTable) : \A d \in PlatformTable[i].domains :
                 ~endswith(resolver.url.netloc, d)
         ELSE \A i \in 1..Len(supported_platforms) :
                 \A d \in supported_platforms[i].domains :
                    ~endswith(resolver.url.netloc, d) )
    => resolver.calls = <<>>

\* C20: a success carries a media URL (in the bot that sends files, a
\* downloaded file), and a strategy whose service described media without a
\* URL counts as having found nothing.
SuccessCarriesMediaUrl ==
    /\ ( /\ resolver.phase = "done"
         /\ resolver.shown.kind = "download_complete" )
       => IF bot = "main" THEN resolver.result.data.url = MediaUrl
          ELSE resolver.result.filepath = DownloadedFile
    /\ InChain =>
          \A k \in 1..Len(resolver.calls) :
             resolver.calls[k].env = "media_without_url"
                => resolver.calls[k].returned = None

\* C23: a /start creates a referral edge only when its parameter is ref_
\* followed by an integer other than the sender's id, and then it is the
\* unverified edge from that integer to the sender; with any other parameter
\* the referrals table is left as it was and nobody is notified.  The welcome
\* is sent in either case.
OnlyRefIntegerCreatesEdge ==
    [][ reply'.op = "start" =>
          LET a      == reply'.args
              u      == reply'.user
              suffix == int(SubSeq(a, 5, Len(a)))
              formed == startswith(a, RefPrefix) /\ suffix.ok /\ suffix.value # u
          IN  /\ referrals' # referrals =>
                    /\ formed
                    /\ referrals' = referrals
                          (+) SetToBag({ReferralRow(suffix.value, u, FALSE)})
              /\ ~formed => referrals' = referrals /\ reply'.notified = 0
              /\ users'[u] # None
              /\ reply'.downloads_left = FREE_DOWNLOADS_LIMIT ]_vars

\* every ignored form has been sent (a bare number, a non-numeric suffix, the
\* sender's own link) and a well-formed link has made its edge
IgnoredStartParamsWitness ==
    /\ reply.op = "start"
    /\ reply.user = 2
    /\ reply.args = <<"1">>
    /\ reply.notified = 0
    /\ EdgeCount(referrals, 2, 1) = 1
    /\ EdgeCount(referrals, 1, 2) = 0
    /\ EdgeCount(referrals, 2, 2) = 0

\* C28: the referrer of every referral edge has a row in the users table.
ReferrerIsAKnownUser ==
    \A r \in BagToSet(referrals) :
        r.referrer_id \in DOMAIN users /\ users[r.referrer_id] # None

\* C29: no two users refer each other: with the edge (a, b) in the table the
\* edge (b, a) is not.
NoMutualEdges ==
    \A r, s \in BagToSet(referrals) :
        ~(r.referrer_id = s.referred_id /\ r.referred_id = s.referrer_id)

\* C30: the verified edges of a referred user all have the same referrer.
OneVerifiedReferrerPerUser ==
    \A r, s \in BagToSet(referrals) :
        (r.verified /\ s.verified /\ r.referred_id = s.referred_id)
            => r.referrer_id = s.referrer_id

\* the step is a call of can_download or record_download for reply'.user
RateTableCall ==
    /\ now' = now
    /\ reply'.op \in {"can_download", "record_download"}
    /\ reply' # reply \/ user_downloads' # user_downloads \/ users' # users

\* the timestamps of stamps that are younger than the window at time t
Younger(stamps, t) == {i \in 1..Len(stamps) : t - stamps[i] < WindowSeconds}

\* C26: after a call of can_download or record_download for a user, whatever
\* the user's row, every timestamp the rate table holds for that user is
\* younger than the one-hour window.
TableIsPrunedOnAccess ==
    [][ RateTableCall =>
          Younger(user_downloads'[reply'.user], now)
             = 1..Len(user_downloads'[reply'.user]) ]_vars

\* C27: can_download admits an unlimited user whatever the rate table holds;
\* it admits a known user without unlimited access and with free downloads
\* left exactly when fewer than max_downloads_per_hour of the stored timestamps
\* are younger than 3600 seconds, so that a denied user is admitted again when
\* enough of them have aged out.
HourlyLimitOnlyForFreeUsers ==
    [][ (RateTableCall /\ reply'.op = "can_download" /\ users[reply'.user] # None) =>
          LET row    == users[reply'.user]
              recent == Cardinality(Younger(user_downloads[reply'.user], now))
          IN  /\ row.unlimited_access => reply'.allowed
              /\ (~row.unlimited_access /\ row.downloads_used < free_downloads_limit)
                    => (reply'.allowed <=> recent < max_downloads_per_hour) ]_vars

\* a user without unlimited access whose table held max_downloads_per_hour
\* timestamps or more is admitted, the old ones having been dropped
AdmittedAgainWitness ==
    /\ reply.op = "can_download"
    /\ reply.allowed
    /\ reply.stamps >= max_downloads_per_hour
    /\ users[reply.user] # None
    /\ ~users[reply.user].unlimited_access
    /\ Len(user_downloads[reply.user]) < max_downloads_per_hour
    /\ Len(user_downloads[reply.user]) > 0
    /\ now = Times[3]

\* C24: when the store fails while the row of a user who has one is read, the
\* message is not admitted to the download.
StoreFailureDeniesKnownUser ==
    (reply.op = "admission" /\ reply.store # "ok" /\ reply.known)
        => reply.outcome # "admitted"

\* C25: no handler run ends by raising.
NoHandlerRaises ==
    /\ reply.op = "admission" => reply.outcome # "raised"
    /\ reply.op = "verify" => reply.text # "exception"

\* C21: when the handling of a download request has ended, delivered or
\* failed, no file written for it is in the download directory: the directory
\* holds what it held before the request.
NoFileRemains ==
    [][download_dir' = download_dir]_vars

\* C22: a file delivered to a user is not larger than the ceiling of 50 MB,
\* whatever the platform.
DeliveredFileWithinCeiling ==
    (reply.op = "download" /\ reply.outcome = "delivered")
        => reply.sent.size <= MaxFileBytes

\* C39: a /start notifies a referrer only when it has inserted the edge from
\* that referrer to the sender: a repeated /start with the same link, the
\* sender's own link and a malformed parameter notify nobody.
NotifiedOnlyForNewEdge ==
    [][ (reply'.op = "start" /\ reply'.notified # 0) =>
          /\ EdgeCount(referrals, reply'.notified, reply'.user) = 0
          /\ referrals' = referrals
                (+) SetToBag({ReferralRow(reply'.notified, reply'.user, FALSE)})
          /\ reply'.args = get_referral_link(reply'.notified)
          /\ reply'.notified # reply'.user ]_vars

\* user 2 has sent /start with the link of user 1 again: the edge is there
\* once and nobody is notified
RepeatedStartWitness ==
    /\ reply.op = "start"
    /\ reply.user = 2
    /\ reply.args = get_referral_link(1)
    /\ reply.notified = 0
    /\ EdgeCount(referrals, 1, 2) = 1

\* C35: verify_referral(a, b) answers true exactly when the call turns an
\* unverified edge (a, b) into a verified one; for a verified edge and for a
\* missing edge it answers false.
VerifyReportsChange ==
    \A a \in Users \cup {9}, b \in Users :
        verify_referral(referrals, a, b).success
            <=> (\E r \in BagToSet(referrals) :
                    r.referrer_id = a /\ r.referred_id = b /\ ~r.verified)

\* C36: /verify decides on the membership it has just asked for: when the live
\* check does not say the user follows, whatever the stored followed flag, no
\* access is granted and the reported channel_followed is false.
LiveCheckDecidesUnlock ==
    [][ (reply'.op = "verify" /\ reply'.live \notin Following) =>
          /\ ~reply'.status.access_granted
          /\ ~reply'.status.channel_followed
          /\ ~reply'.status.all_requirements_met
          /\ users' = users ]_vars

\* the stored flag says followed, the referrals are met, the live check
\* fails, and the user has not been granted unlimited access
CachedFollowLiveFailsWitness ==
    /\ reply.op = "verify"
    /\ reply.live = "error"
    /\ reply.status.referrals_met
    /\ channel_follows[reply.user] # None
    /\ channel_follows[reply.user].followed
    /\ ~reply.status.access_granted
    /\ ~HasUnlimited(users, reply.user)

\* C37: the downloads table only grows, and a handled URL adds exactly one row
\* to it, whose success flag is the outcome the user is told.
OneAuditRowPerUrl ==
    [][ /\ downloads \sqsubseteq downloads'
        /\ (reply'.op = "message"
              /\ reply'.outcome \in {"delivered", "download_failed"}
              /\ <<users, downloads, reply, user_downloads>>
                    # <<users', downloads', reply', user_downloads'>>)
           => downloads' = downloads
                 (+) SetToBag({[user_id |-> reply'.user,
                                success |-> reply'.outcome = "delivered"]}) ]_vars

\* C31: a successful download runs the referral verification exactly when it
\* is the first successful download of the user: the first one leaves no
\* pending edge of the user, a later one leaves the referrals as they were.
VerificationOnlyOnFirstDownload ==
    [][ (reply'.op = "message" /\ reply'.outcome = "delivered") =>
          IF delivered[reply'.user] = 0
          THEN PendingReferrers(referrals', reply'.user) = {}
          ELSE referrals' = referrals ]_vars

\* C34: a download that fails or raises leaves downloads_used of the user,
\* the rate table and the verified flag of every edge as they were.
FailureRecordsNothing ==
    [][ (reply'.op = "message" /\ reply'.outcome = "download_failed"
          /\ users[reply'.user] # None) =>
          /\ users'[reply'.user].downloads_used = users[reply'.user].downloads_used
          /\ user_downloads' = user_downloads
          /\ referrals' = referrals ]_vars

\* C33: a download call is made only for a request that was admitted, within
\* the handling of that request; a request that is denied makes no call and
\* leaves every table as it was.
NoStrategyWithoutAdmission ==
    [][ /\ (resolver'.phase # "idle" /\ resolver' # resolver
              /\ resolver'.calls # <<>>)
           => /\ resolver.phase = "running"
              /\ resolver'.user = resolver.user
              /\ resolver'.url = resolver.url
        /\ (reply'.op = "admit"
              /\ reply'.outcome \in {"limit_exceeded", "rate_limited"})
           => /\ resolver'.phase = "done"
              /\ resolver'.calls = <<>>
              /\ users'[reply'.user] = users[reply'.user]
              /\ user_downloads'[reply'.user] = user_downloads[reply'.user]
              /\ referrals' = referrals
              /\ delivered' = delivered ]_vars

\* C38: the polling loop handles every update it has received at most once
\* and skips none, last_update_id never decreases, and an exception raised
\* while an update is handled does not end the loop: the updates that came
\* after it in the batch are still with Telegram, above the offset of the next
\* poll.
PollingHandlesEachUpdateOnce ==
    [][ /\ poller'.last_update_id >= poller.last_update_id
        /\ \A id \in 1..MaxUpdates :
              /\ poller'.handled[id] <= 1
              /\ id <= poller'.last_update_id => poller'.handled[id] = 1
              /\ (id <= poller'.sent /\ id > poller'.last_update_id)
                    => /\ poller'.handled[id] = 0
                       /\ id \in Ids(poller'.queue)
        /\ (reply'.op = "message" /\ reply'.outcome = "raised"
              /\ poller'.handled # poller.handled)
           => /\ poller'.running
              /\ poller'.batch = <<>>
              /\ Ids(Tail(poller.batch)) \subseteq poller'.abandoned ]_vars

\* an update that was left in a batch by an exception has been handled after
\* a later poll
AbandonedUpdateHandledWitness ==
    /\ poller.running
    /\ \E id \in poller.abandoned :
          /\ poller.handled[id] = 1
          /\ poller.handled[id - 1] = 1
          /\ poller.last_update_id >= id

====
